---- MODULE Spec2Model ----
(***************************************************************************)
(* A model of kstd: the bounded recency cache (collections/lru.rs), the     *)
(* byte-range read derived from a block device (io/device/block/mod.rs),   *)
(* the write-back block cache (io/device/block/cache.rs), the              *)
(* copy-on-write overlay (io/block/cow.rs), the delta queue                *)
(* (collections/deltaq.rs), Read::read_exact (io/read.rs) and the owned    *)
(* path (path/owned.rs).                                                   *)
(*                                                                         *)
(* Each component has its own specification (SpecLru, SpecReadAt,          *)
(* SpecCache, SpecCacheSize, SpecCacheConc, SpecCacheConcFair, SpecCow,    *)
(* SpecLayers, SpecDeltaQ, SpecReadExact, SpecOwnedPath) over one set of   *)
(* variables; a specification leaves the variables of the other components *)
(* at their initial value. SpecCache is the block cache in one thread: a   *)
(* read_block call is one step up to the device's read_block and one step  *)
(* from it, and the device may call read_block of the cache in between;    *)
(* SpecCacheSize adds calls of block_size(); SpecCacheConc is the block    *)
(* cache shared by several callers, a step being one statement of          *)
(* read_block, and SpecCacheConcFair adds a fair scheduler; SpecLayers     *)
(* starts either a block cache or a copy-on-write overlay.                 *)
(*                                                                         *)
(* Option<T> is modelled as a sequence of length 0 (None) or 1 (Some).     *)
(***************************************************************************)
EXTENDS Integers, Sequences, FiniteSets, Bags, TLC

\* ------------------------------------------------------------------ bounds

\* LruCache: max_size ranges over 0..MaxCap
MaxCap == 3
\* LruCache: at most MaxInserts insert calls in one lifetime
MaxInserts == 4
\* LruCache: the values inserted range over 0..MaxVal
MaxVal == 1

Values == 0..MaxVal

\* read_at: the device's block_size ranges over 1..MaxBlockSize
MaxBlockSize == 3
\* read_at: the device's block_count ranges over 1..MaxBlockCount
MaxBlockCount == 3

\* BlockCache: block addresses range over 0..MaxAddr
MaxAddr == 2
\* BlockCache: the capacity of the cache ranges over 0..MaxCacheCap
MaxCacheCap == 2
\* BlockCache: at most MaxCacheOps read_block and write_block calls
MaxCacheOps == 3
\* BlockCache: the buffers written are Pattern(k) for k in CachePatterns; the
\* cache never looks at the bytes, and a written buffer differs from the bytes
\* the device holds at first
CachePatterns == {0}
\* BlockCache: the block_size of the wrapped device
CacheBlockSizes == {2}

\* CowBlockDevice: block addresses range over 0..MaxCowAddr
MaxCowAddr == 1
\* CowBlockDevice: at most MaxCowOps read_block and write_block calls
MaxCowOps == 3
\* CowBlockDevice: the buffers written are Pattern(k) for k in CowPatterns; two
\* different buffers tell the most recent write from an earlier one
CowPatterns == {0, 1}
\* CowBlockDevice: the block_size of the backing device
CowBlockSizes == {8, 512, 520}

\* shared BlockCache: at most MaxConcCalls read_block calls are started
MaxConcCalls == 3
\* shared BlockCache: the callers that share it
Callers == {1, 2}

\* DeltaQueue: the weights given to insert range over 0..MaxWeight
MaxWeight == 3
\* DeltaQueue: at most MaxDqInserts insert calls
MaxDqInserts == 4

\* read_exact: the buffer is 0..MaxReadLen elements long
MaxReadLen == 3
\* read_exact: the source holds 0..MaxSrcLen elements
MaxSrcLen == 3
\* read_exact: one read call delivers at most 0..MaxChunk elements
MaxChunk == 2

\* OwnedPath: a pushed segment is 0..MaxSegLen characters long
MaxSegLen == 2
\* OwnedPath: at most MaxPushes push calls
MaxPushes == 3
\* OwnedPath: the characters of the segments
PathChars == {"a", ".", "/"}

\* --------------------------------------------------------------- variables

VARIABLES
    \* LruCache (collections/lru.rs)
    max_size,       \* LruCache.max_size
    data,           \* LruCache.data, front (most recently used) first
    evicted,        \* the calls of on_evict so far, in order
    lru_alive,      \* FALSE once the cache has been dropped
    lru_hist,       \* every item given to insert, in order
    lru_found,      \* TRUE once some find call has been made
    lru_last,       \* the last operation: its kind, argument, result, pre-state
    \* read_at over a BlockDevice (io/device/block/mod.rs)
    ra_dev,         \* the device: geometry, contents, failing blocks
    ra_last,        \* the last read_at call: arguments, result, device calls
    \* BlockCache (io/device/block/cache.rs)
    bc_cache,       \* BlockCache.cache: the LruCache's max_size and data
    bc_block_size,  \* BlockCache.block_size
    bc_dev,         \* BlockCache.device: the bytes of every block
    bc_alive,       \* FALSE once the BlockCache has been dropped
    bc_stack,       \* the read_block calls that are inside the device's
                    \* read_block (line 77), the outermost first
    bc_stats,       \* counts of the device calls and of the calls made so far
    bc_last,        \* the last call: arguments, result, device calls
    \* CowBlockDevice (io/block/cow.rs)
    cow_inner,      \* CowBlockDevice.inner: block_size and the bytes of every block
    cow_blocks,     \* CowBlockDevice.blocks: the overlay, address -> [u8; 512]
    cow_stats,      \* counts of the calls made of the backing device and so far
    cow_last,       \* the last call: arguments and result
    \* BlockCache shared by several callers (io/device/block/cache.rs)
    cc_pc,          \* where each caller is in read_block
    cc_local,       \* each caller's locals: block number, res, block, result
    cc_mutex,       \* the holder of BlockCache.cache's Mutex, 0 when free
    cc_devlock,     \* BlockCache.device's RwLock: its readers and its writer
    cc_calls,       \* the read_block calls started, the blocks made so far
    \* DeltaQueue (collections/deltaq.rs)
    dq_data,        \* DeltaQueue.data: the nodes, front first
    dq_hist,        \* the weight given to insert for each element, in call order
    dq_popped,      \* the elements pop_front returned, in order, each with
                    \* the number of insert calls made before the pop
    \* Read::read_exact (io/read.rs)
    rx_last,        \* the read_exact call made: reader, buffer, result, reads
    \* OwnedPath (path/owned.rs)
    op_inner,       \* OwnedPath.inner, a sequence of characters
    op_last         \* the last push: its segment, the inner before it, the
                    \* number of pushes so far

lruVars == <<max_size, data, evicted, lru_alive, lru_hist, lru_found, lru_last>>

raVars == <<ra_dev, ra_last>>

bcVars == <<bc_cache, bc_block_size, bc_dev, bc_alive, bc_stack, bc_stats, bc_last>>

cowVars == <<cow_inner, cow_blocks, cow_stats, cow_last>>

ccVars == <<cc_pc, cc_local, cc_mutex, cc_devlock, cc_calls>>

dqVars == <<dq_data, dq_hist, dq_popped>>

rxVars == <<rx_last>>

opVars == <<op_inner, op_last>>

vars == <<max_size, data, evicted, lru_alive, lru_hist, lru_found, lru_last,
          ra_dev, ra_last,
          bc_cache, bc_block_size, bc_dev, bc_alive, bc_stack, bc_stats, bc_last,
          cow_inner, cow_blocks, cow_stats, cow_last,
          cc_pc, cc_local, cc_mutex, cc_devlock, cc_calls,
          dq_data, dq_hist, dq_popped,
          rx_last,
          op_inner, op_last>>

\* ----------------------------------------------------------------- helpers

None == <<>>
Some(x) == <<x>>

SeqRange(s) == {s[i] : i \in 1..Len(s)}

Front(s) == SubSeq(s, 1, Len(s) - 1)
Last(s) == s[Len(s)]

\* ------------------------------------------- results of fallible operations

\* io::Result<usize>: Ok(n), Err(e); Panic is the call that does not return
Ok(n) == [tag |-> "Ok", val |-> n]
Err(e) == [tag |-> "Err", err |-> e]
Panic == [tag |-> "Panic"]

\* vec![0_u8; n]
Zeros(n) == [i \in 1..n |-> 0]

\* ------------------------------------------------------- idle components

\* the state of the LruCache component while another component runs
LruIdle ==
    /\ max_size = 0
    /\ data = <<>>
    /\ evicted = <<>>
    /\ lru_alive = FALSE
    /\ lru_hist = <<>>
    /\ lru_found = FALSE
    /\ lru_last = [kind |-> "new", pre |-> <<>>, preEv |-> 0, ret |-> None, pred |-> {}]

RaNoCall ==
    [kind |-> "none", offset |-> 0, len |-> 0, pad |-> 0, res |-> Ok(0),
     store |-> <<>>, reads |-> <<>>, direct |-> FALSE]

\* the state of the read_at component while another component runs
RaIdle ==
    /\ ra_dev = [block_size |-> 1, block_count |-> 1, bad |-> {}, oob |-> "err",
                 fill |-> "block", ovf |-> "panic"]
    /\ ra_last = RaNoCall

\* the state of the BlockCache component while another component runs
BcIdle ==
    /\ bc_cache = [max_size |-> 0, data |-> <<>>]
    /\ bc_block_size = 0
    /\ bc_dev = <<>>
    /\ bc_alive = FALSE
    /\ bc_stack = <<>>
    /\ bc_stats = <<>>
    /\ bc_last = [kind |-> "none"]

\* the state of the CowBlockDevice component while another component runs
CowIdle ==
    /\ cow_inner = <<>>
    /\ cow_blocks = <<>>
    /\ cow_stats = <<>>
    /\ cow_last = [kind |-> "none"]

\* the state of the callers of a shared BlockCache while there are none
CcIdle ==
    /\ cc_pc = <<>>
    /\ cc_local = <<>>
    /\ cc_mutex = 0
    /\ cc_devlock = [readers |-> {}, writer |-> 0]
    /\ cc_calls = [started |-> 0, blocks |-> 0]

\* the state of the DeltaQueue component while another component runs
DqIdle ==
    /\ dq_data = <<>>
    /\ dq_hist = <<>>
    /\ dq_popped = <<>>

\* the state of the read_exact component while another component runs
RxIdle == rx_last = [kind |-> "none"]

\* the state of the OwnedPath component while another component runs
OpIdle ==
    /\ op_inner = <<>>
    /\ op_last = [kind |-> "new", seg |-> <<>>, pre |-> <<>>, pushes |-> 0]

\* ---------------------------------------------------------------- LruCache

\* A predicate (the FnMut(&V) -> bool given to find) is modelled by the set of
\* the entries it holds for.

\* Iterator::position: the index of the first element that satisfies the
\* predicate, scanning from the front; 0 when there is none.
RECURSIVE PositionFrom(_, _, _)
PositionFrom(d, P, i) ==
    IF i > Len(d) THEN 0
    ELSE IF d[i] \in P THEN i
    ELSE PositionFrom(d, P, i + 1)

\* faulty variant: the index of the last element that satisfies the predicate
position_last(d, P) ==
    IF \E i \in 1..Len(d) : d[i] \in P
    THEN CHOOSE i \in 1..Len(d) : d[i] \in P /\ \A j \in (i + 1)..Len(d) : d[j] \notin P
    ELSE 0

position(d, P) == PositionFrom(d, P, 1)

\* VecDeque::remove(i) followed by what is left
RemoveAt(d, i) == SubSeq(d, 1, i - 1) \o SubSeq(d, i + 1, Len(d))

\* faulty variant: when no entry satisfies P the tail is moved to the front
\* all the same, and None returned
find_miss_promotes_tail(d, P) ==
    LET pos == IF position(d, P) # 0 THEN position(d, P) ELSE Len(d) IN
    IF pos # 0
    THEN LET item == d[pos]
             d2 == <<item>> \o RemoveAt(d, pos)
         IN [data |-> d2, ret |-> IF position(d, P) # 0 THEN Some(d2[1]) ELSE None]
    ELSE [data |-> d, ret |-> None]

\* LruCache::find: the data after the call and the returned Option<&V>. The
\* first entry that satisfies P is removed and pushed to the front (lru.rs
\* 29-35); with no such entry nothing is touched and None returned (line 37).
find(d, P) ==
    LET pos == position(d, P) IN
    IF pos # 0
    THEN LET item == d[pos]
             d2 == <<item>> \o RemoveAt(d, pos)
         IN [data |-> d2, ret |-> Some(d2[1])]
    ELSE [data |-> d, ret |-> None]

\* faulty variant: the popped value is released without a call of the handler
insert_evict_silent(d, max) ==
    IF Len(d) >= max /\ Len(d) > 0
    THEN [data |-> Front(d), out |-> None]
    ELSE [data |-> d, out |-> None]

\* faulty variant: pop_front in place of pop_back: the newest entry is evicted
insert_evict_front(d, max) ==
    IF Len(d) >= max /\ Len(d) > 0
    THEN [data |-> Tail(d), out |-> Some(Head(d))]
    ELSE [data |-> d, out |-> None]

\* LruCache::insert, up to the call of the eviction handler: the data after
\* pop_back and the value handed to the handler (None when nothing is popped)
insert_evict(d, max) ==
    IF Len(d) >= max
    THEN IF Len(d) > 0
         THEN [data |-> Front(d), out |-> Some(Last(d))]
         ELSE [data |-> d, out |-> None]
    ELSE [data |-> d, out |-> None]

\* LruCache::insert: the data after the call and the handler calls it made,
\* each with the data the cache held when the handler ran
insert(d, max, item) ==
    LET e == insert_evict(d, max) IN
    [data |-> <<item>> \o e.data,
     calls |-> IF e.out = None THEN <<>>
               ELSE <<[item |-> e.out[1], held |-> e.data]>>]

\* faulty variant: pop_front in place of pop_back: entries are evicted front first
RECURSIVE drop_front_first(_)
drop_front_first(d) ==
    IF d = <<>> THEN [data |-> d, calls |-> <<>>]
    ELSE LET rest == drop_front_first(Tail(d)) IN
         [data |-> rest.data,
          calls |-> <<[item |-> Head(d), held |-> Tail(d)]>> \o rest.calls]

\* Drop for LruCache: pop_back and evict until the data is empty
RECURSIVE drop(_)
drop(d) ==
    IF d = <<>> THEN [data |-> d, calls |-> <<>>]
    ELSE LET rest == drop(Front(d)) IN
         [data |-> rest.data,
          calls |-> <<[item |-> Last(d), held |-> Front(d)]>> \o rest.calls]

\* An entry of the model's cache: the value and the number of the insert call
\* that gave it (Rust moves values, so each inserted value is its own object).
Entry(v, n) == [val |-> v, id |-> n]

\* the predicate "the value is in S"
ValueIn(S) == {Entry(v, n) : v \in S, n \in 1..MaxInserts}

LruNew ==
    /\ max_size \in 0..MaxCap
    /\ data = <<>>
    /\ evicted = <<>>
    /\ lru_alive = TRUE
    /\ lru_hist = <<>>
    /\ lru_found = FALSE
    /\ lru_last = [kind |-> "new", pre |-> <<>>, preEv |-> 0, ret |-> None, pred |-> {}]

InitLru ==
    /\ LruNew
    /\ RaIdle
    /\ BcIdle
    /\ CowIdle
    /\ CcIdle
    /\ DqIdle
    /\ RxIdle
    /\ OpIdle

LruInsert ==
    /\ lru_alive
    /\ Len(lru_hist) < MaxInserts
    /\ \E v \in Values :
        LET item == Entry(v, Len(lru_hist) + 1)
            r == insert(data, max_size, item)
        IN /\ data' = r.data
           /\ evicted' = evicted \o r.calls
           /\ lru_hist' = Append(lru_hist, item)
           /\ lru_last' = [kind |-> "insert", pre |-> data, preEv |-> Len(evicted),
                       ret |-> None, pred |-> {}]
    /\ UNCHANGED <<max_size, lru_alive, lru_found>>
    /\ UNCHANGED <<raVars, bcVars, cowVars, ccVars, dqVars, rxVars, opVars>>

\* find with the predicate "the value is in S"
LruFind ==
    /\ lru_alive
    /\ \E S \in SUBSET Values :
        LET r == find(data, ValueIn(S))
        IN /\ data' = r.data
           /\ lru_last' = [kind |-> "find", pre |-> data, preEv |-> Len(evicted),
                          ret |-> r.ret, pred |-> S]
    /\ lru_found' = TRUE
    /\ UNCHANGED <<max_size, evicted, lru_alive, lru_hist>>
    /\ UNCHANGED <<raVars, bcVars, cowVars, ccVars, dqVars, rxVars, opVars>>

LruDrop ==
    /\ lru_alive
    /\ LET r == drop(data)
       IN /\ data' = r.data
          /\ evicted' = evicted \o r.calls
    /\ lru_alive' = FALSE
    /\ lru_last' = [kind |-> "drop", pre |-> data, preEv |-> Len(evicted),
                       ret |-> None, pred |-> {}]
    /\ UNCHANGED <<max_size, lru_hist, lru_found>>
    /\ UNCHANGED <<raVars, bcVars, cowVars, ccVars, dqVars, rxVars, opVars>>

NextLru == LruInsert \/ LruFind \/ LruDrop

SpecLru == InitLru /\ [][NextLru]_vars

\* ------------------------------------- read_at over a BlockDevice (mod.rs)

\* A device for read_at: block_size, block_count, the blocks whose read_block
\* returns an error (bad), what a read_block outside [0, block_count) does
\* (oob: "panic" as TestBlockDevice does, "err" as the contract of a device
\* says), and its contents (fill: "block" gives every byte of block N the
\* value N + 1 as TestBlockDevice does, "pos" gives the byte at position p the
\* value p + 1). TestBlockDevice computes `block as u8 + 1`: for a block with
\* block as u8 = 255 the addition overflows, which panics in a build with
\* overflow checks and wraps to 0 in one without (ovf: "panic" or "wrap").
RaDevByte(dev, p) ==
    IF dev.fill = "block"
    THEN (((p \div dev.block_size) % 256) + 1) % 256
    ELSE (p + 1) % 256

\* `block as u8 + 1` overflows
RaFillOverflows(dev, b) == dev.fill = "block" /\ (b % 256) + 1 > 255

\* the bytes of block b of the device
RaDevBlock(dev, b) ==
    [i \in 1..dev.block_size |-> RaDevByte(dev, b * dev.block_size + (i - 1))]

\* BlockDevice::read_block(b, buf) with Len(buf) = block_size: the result
\* and the buffer after the call
RaReadBlock(dev, b, buf) ==
    IF b >= dev.block_count
    THEN [res |-> IF dev.oob = "panic" THEN Panic ELSE Err("InvalidOffset"),
          buf |-> buf]
    ELSE IF b \in dev.bad
    THEN [res |-> Err("BadAddress"), buf |-> buf]
    ELSE IF RaFillOverflows(dev, b) /\ dev.ovf = "panic"
    THEN [res |-> Panic, buf |-> buf]
    ELSE [res |-> Ok(Len(buf)), buf |-> RaDevBlock(dev, b)]

\* read_at's loop "for i in 0..block_count", from iteration i on: data is the
\* staging buffer, reads the blocks asked of the device so far
RECURSIVE StageBlocks(_, _, _, _, _, _)
StageBlocks(dev, start_block, block_count, i, staged, reads) ==
    IF i >= block_count
    THEN [res |-> Ok(0), data |-> staged, reads |-> reads]
    ELSE LET block_size == dev.block_size
             start_index == i * block_size
             end_index == start_index + block_size
             read_block_index == start_block + i
             r == RaReadBlock(dev, read_block_index,
                              SubSeq(staged, start_index + 1, end_index))
             reads2 == Append(reads, read_block_index)
         IN IF r.res.tag # "Ok"
            THEN [res |-> r.res, data |-> staged, reads |-> reads2]
            ELSE StageBlocks(dev, start_block, block_count, i + 1,
                             SubSeq(staged, 1, start_index) \o r.buf
                                 \o SubSeq(staged, end_index + 1, Len(staged)),
                             reads2)

\* read_at's block_count (lines 38-42): the number of blocks staged
stage_count(start_block, end_block, relative_offset) ==
    IF relative_offset = 0 /\ start_block # end_block
    THEN end_block - start_block
    ELSE end_block - start_block + 1

\* read_at that goes on to the copy when a staged read_block returned an error
read_at_swallow(dev, offset, buffer) ==
    LET len == Len(buffer)
        block_size == dev.block_size
    IN IF len = 0
       THEN \* offset % 0
            [res |-> Panic, buf |-> buffer, reads |-> <<>>, direct |-> FALSE]
       ELSE IF offset % len = 0 /\ len = block_size
       THEN LET r == RaReadBlock(dev, offset \div block_size, buffer)
            IN [res |-> r.res, buf |-> r.buf,
                reads |-> <<offset \div block_size>>, direct |-> TRUE]
       ELSE LET start_block == offset \div block_size
                end_block == (offset + len) \div block_size
                relative_offset == offset % block_size
                block_count == stage_count(start_block, end_block, relative_offset)
                st == StageBlocks(dev, start_block, block_count, 0,
                                  Zeros(block_count * block_size), <<>>)
            IN IF st.res.tag = "Panic"
               THEN [res |-> st.res, buf |-> buffer, reads |-> st.reads,
                     direct |-> FALSE]
               ELSE IF relative_offset + len > Len(st.data)
               THEN \* the slice data[relative_offset..relative_offset + len]
                    \* is out of range
                    [res |-> Panic, buf |-> buffer, reads |-> st.reads,
                     direct |-> FALSE]
               ELSE [res |-> Ok(len),
                     buf |-> SubSeq(st.data, relative_offset + 1,
                                    relative_offset + len),
                     reads |-> st.reads, direct |-> FALSE]

\* ReadAt::read_at(offset, buf) for a BlockDevice: the result, the buffer
\* after the call, the blocks asked of the device in order, and whether the
\* call was delegated to read_block (direct)
read_at(dev, offset, buffer) ==
    LET len == Len(buffer)
        block_size == dev.block_size
    IN IF len = 0
       THEN \* offset % 0
            [res |-> Panic, buf |-> buffer, reads |-> <<>>, direct |-> FALSE]
       ELSE IF offset % len = 0 /\ len = block_size
       THEN LET r == RaReadBlock(dev, offset \div block_size, buffer)
            IN [res |-> r.res, buf |-> r.buf,
                reads |-> <<offset \div block_size>>, direct |-> TRUE]
       ELSE LET start_block == offset \div block_size
                end_block == (offset + len) \div block_size
                relative_offset == offset % block_size
                block_count == stage_count(start_block, end_block, relative_offset)
                st == StageBlocks(dev, start_block, block_count, 0,
                                  Zeros(block_count * block_size), <<>>)
            IN IF st.res.tag # "Ok"
               THEN [res |-> st.res, buf |-> buffer, reads |-> st.reads,
                     direct |-> FALSE]
               ELSE IF relative_offset + len > Len(st.data)
               THEN \* the slice data[relative_offset..relative_offset + len]
                    \* is out of range
                    [res |-> Panic, buf |-> buffer, reads |-> st.reads,
                     direct |-> FALSE]
               ELSE [res |-> Ok(len),
                     buf |-> SubSeq(st.data, relative_offset + 1,
                                    relative_offset + len),
                     reads |-> st.reads, direct |-> FALSE]

\* the devices read_at is called on
RaDevices ==
    {[block_size |-> bs, block_count |-> bc, bad |-> bad, oob |-> oob, fill |-> f,
      ovf |-> o] :
        bs \in 1..MaxBlockSize, bc \in 1..MaxBlockCount,
        bad \in {{}} \cup {{b} : b \in 0..(MaxBlockCount - 1)},
        oob \in {"panic", "err"}, f \in {"block", "pos"},
        o \in {"panic", "wrap"}}

RaNew ==
    /\ ra_dev \in {d \in RaDevices :
                      /\ d.bad \subseteq 0..(d.block_count - 1)
                      \* the build matters only to a device that has block 255
                      /\ d.block_count <= 255 => d.ovf = "panic"}
    /\ ra_last = RaNoCall

\* dev.read_at(offset, &mut &mut store[pad..pad + len]) on a zeroed store
\* that is pad elements longer than the window on either side. read_at keeps
\* no state and the device is not changed by it, so one call is made on each
\* device.
RaCall ==
    /\ ra_last.kind = "none"
    /\ \E offset \in 0..(ra_dev.block_size * ra_dev.block_count),
          len \in 0..(ra_dev.block_size * ra_dev.block_count + 1),
          pad \in 0..1 :
        LET r == read_at(ra_dev, offset, Zeros(len))
        IN ra_last' = [kind |-> "read_at", offset |-> offset, len |-> len,
                       pad |-> pad, res |-> r.res,
                       store |-> Zeros(pad) \o r.buf \o Zeros(pad),
                       reads |-> r.reads, direct |-> r.direct]
    /\ UNCHANGED ra_dev
    /\ UNCHANGED <<lruVars, bcVars, cowVars, ccVars, dqVars, rxVars, opVars>>

InitReadAt ==
    /\ RaNew
    /\ LruIdle
    /\ BcIdle
    /\ CowIdle
    /\ CcIdle
    /\ DqIdle
    /\ RxIdle
    /\ OpIdle

NextReadAt == RaCall

SpecReadAt == InitReadAt /\ [][NextReadAt]_vars

\* -------------------------------------------------------- read_at: claims

\* C6: on a device whose read_block succeeds for every block in
\* [0, block_count), for every offset and len >= 1 with
\* offset + len <= block_size * block_count, read_at returns Ok(len), the
\* destination holds the device bytes offset .. offset + len - 1, and the
\* caller's storage outside the destination keeps its prior value (0).
C6_ReadAtCorrect ==
    (/\ ra_last.kind = "read_at"
     /\ ra_dev.bad = {}
     /\ ra_last.len >= 1
     /\ ra_last.offset + ra_last.len <= ra_dev.block_size * ra_dev.block_count) =>
        /\ ra_last.res = Ok(ra_last.len)
        /\ Len(ra_last.store) = ra_last.len + 2 * ra_last.pad
        /\ \A i \in 0..(ra_last.len - 1) :
             ra_last.store[ra_last.pad + i + 1] = RaDevByte(ra_dev, ra_last.offset + i)
        /\ \A i \in 1..ra_last.pad :
             /\ ra_last.store[i] = 0
             /\ ra_last.store[ra_last.pad + ra_last.len + i] = 0

\* the blocks first, first + 1, ..., first + n - 1 in ascending order
BlockRun(first, n) == [i \in 1..n |-> first + i - 1]

\* C25: a request of exactly one block that is block-aligned
\* (len = block_size and offset mod block_size = 0) makes exactly one
\* read_block call, for block offset / block_size, into the destination, and
\* returns that call's result; every other request takes the staging path,
\* which reads at least one block into the staging buffer.
C25_DirectIffOneAlignedBlock ==
    ra_last.kind = "read_at" =>
        IF ra_last.len = ra_dev.block_size /\ ra_last.offset % ra_dev.block_size = 0
        THEN LET r == RaReadBlock(ra_dev, ra_last.offset \div ra_dev.block_size,
                                  Zeros(ra_last.len))
             IN /\ ra_last.direct
                /\ ra_last.reads = <<ra_last.offset \div ra_dev.block_size>>
                /\ ra_last.res = r.res
                /\ ra_last.store = Zeros(ra_last.pad) \o r.buf \o Zeros(ra_last.pad)
        ELSE /\ ~ra_last.direct
             /\ Len(ra_last.reads) >= 1
             /\ ra_last.reads[1] = ra_last.offset \div ra_dev.block_size

\* C26: on the staging path the blocks start_block, start_block + 1, ... are
\* each read once in ascending order; their number is end_block - start_block
\* when the offset is block-aligned and the range spans more than one block
\* and ends on a block boundary, and end_block - start_block + 1 otherwise.
\* Stated for the requests all of whose blocks the device reads.
C26_StagedBlocks ==
    (ra_last.kind = "read_at" /\ ~ra_last.direct /\ ra_last.len >= 1) =>
        LET block_size == ra_dev.block_size
            start_block == ra_last.offset \div block_size
            end_block == (ra_last.offset + ra_last.len) \div block_size
            n == IF /\ ra_last.offset % block_size = 0
                    /\ ra_last.len > block_size
                    /\ (ra_last.offset + ra_last.len) % block_size = 0
                 THEN end_block - start_block
                 ELSE end_block - start_block + 1
        IN (ra_dev.bad = {} /\ start_block + n <= ra_dev.block_count) =>
               ra_last.reads = BlockRun(start_block, n)

\* C27: when a read_block call made by read_at returns an error, it is the
\* last read_block call of that read_at and read_at returns that error.
C27_ReadErrorPropagates ==
    ra_last.kind = "read_at" =>
        \A i \in 1..Len(ra_last.reads) :
            LET r == RaReadBlock(ra_dev, ra_last.reads[i], Zeros(ra_dev.block_size))
            IN r.res.tag = "Err" =>
                   /\ i = Len(ra_last.reads)
                   /\ ra_last.res = r.res

\* C27 witness: a staged read whose second block failed although a third
\* block was still to be staged
C27_Witness ==
    /\ ra_last.kind = "read_at"
    /\ ~ra_last.direct
    /\ Len(ra_last.reads) = 2
    /\ ra_last.reads[2] \in ra_dev.bad
    /\ ra_last.res = Err("BadAddress")
    /\ (ra_last.offset + ra_last.len) \div ra_dev.block_size > ra_last.reads[2]

\* C36: read_at asks the device only for blocks b whose bytes
\* [b * block_size, (b + 1) * block_size) intersect the requested range
\* [offset, offset + len).
C36_OnlyBlocksInRange ==
    ra_last.kind = "read_at" =>
        \A i \in 1..Len(ra_last.reads) :
            LET b == ra_last.reads[i] IN
            /\ b * ra_dev.block_size < ra_last.offset + ra_last.len
            /\ (b + 1) * ra_dev.block_size > ra_last.offset

\* C37: read_at with an empty destination (len = 0) returns Ok(0), for
\* every offset and block_size.
C37_EmptyReadOk ==
    (ra_last.kind = "read_at" /\ ra_last.len = 0) => ra_last.res = Ok(0)

\* ------------------------------------------------------- LruCache: claims

\* the values handed to the eviction handler so far, in order
EvictedItems == [i \in 1..Len(evicted) |-> evicted[i].item]

NoDuplicates(s) == \A i, j \in 1..Len(s) : i # j => s[i] # s[j]

Min(a, b) == IF a <= b THEN a ELSE b

\* C1: for every max_size M, M = 0 included, after every operation
\* len() <= M.
C1_LenWithinMax == Len(data) <= max_size

\* C2: every inserted value is handed to the eviction handler exactly once:
\* before the drop the handler has run (inserts - len()) times, after the
\* drop it has run once per insert; no value is handed twice, no value still
\* held has been handed, and only inserted values are handed.
C2_EvictedExactlyOnce ==
    /\ NoDuplicates(EvictedItems)
    /\ SeqRange(EvictedItems) \subseteq SeqRange(lru_hist)
    /\ SeqRange(EvictedItems) \cap SeqRange(data) = {}
    /\ lru_alive => Len(evicted) = Len(lru_hist) - Len(data)
    /\ ~lru_alive => /\ Len(evicted) = Len(lru_hist)
                     /\ SeqRange(EvictedItems) = SeqRange(lru_hist)

\* C2 witness: a dropped cache that overflowed, was searched, and still held
\* entries when it was dropped
C2_Witness ==
    /\ ~lru_alive
    /\ lru_found
    /\ max_size >= 1
    /\ Len(lru_hist) > max_size
    /\ Len(lru_last.pre) >= 2

\* C3: from an empty cache of capacity M >= 1, after n inserts and no find,
\* the contents front to back are the last min(n, M) inserted values, newest
\* first; the overflowing inserts handed the oldest values to the handler,
\* oldest first, each before the new value was placed; equal values are kept
\* as separate entries.
C3_InsertOrder ==
    (lru_alive /\ ~lru_found /\ max_size >= 1) =>
        LET n == Len(lru_hist)
            k == Min(n, max_size)
        IN /\ Len(data) = k
           /\ \A i \in 1..k : data[i] = lru_hist[n - i + 1]
           /\ Len(evicted) = n - k
           /\ \A i \in 1..(n - k) :
                /\ evicted[i].item = lru_hist[i]
                /\ Len(evicted[i].held) = max_size - 1
                /\ \A j \in 1..(max_size - 1) :
                     evicted[i].held[j] = lru_hist[i + max_size - j]

\* C3 witness: an overflowed cache, never searched, that holds two equal values
C3_Witness ==
    /\ lru_alive /\ ~lru_found
    /\ max_size >= 2
    /\ Len(lru_hist) >= max_size + 2
    /\ \E i, j \in 1..Len(data) : i # j /\ data[i].val = data[j].val

\* C4: when some entry satisfies the predicate, find returns the first such
\* entry front to back, moves exactly it to position 0, keeps the order of
\* the others, leaves len() unchanged and does not call the handler.
C4_FindPromotes ==
    (lru_last.kind = "find" /\ \E i \in 1..Len(lru_last.pre) :
                                  lru_last.pre[i].val \in lru_last.pred) =>
        LET pre == lru_last.pre
            p == CHOOSE i \in 1..Len(pre) :
                    /\ pre[i].val \in lru_last.pred
                    /\ \A j \in 1..(i - 1) : pre[j].val \notin lru_last.pred
        IN /\ lru_last.ret = Some(pre[p])
           /\ Len(data) = Len(pre)
           /\ data[1] = pre[p]
           /\ \A i \in 1..(p - 1) : data[i + 1] = pre[i]
           /\ \A i \in (p + 1)..Len(pre) : data[i] = pre[i]
           /\ Len(evicted) = lru_last.preEv

\* C4 witness: a find that promoted the second entry although the third one
\* also satisfied the predicate
C4_Witness ==
    /\ lru_last.kind = "find"
    /\ Len(lru_last.pre) >= 3
    /\ lru_last.ret = Some(lru_last.pre[2])
    /\ lru_last.pre[3].val \in lru_last.pred
    /\ data[1] = lru_last.pre[2]

\* C24: a find whose predicate no entry satisfies returns None and leaves
\* the entries (contents and order), len() and the number of eviction-handler
\* calls as they were. lru_last.pre and lru_last.preEv are the entries and
\* the number of handler calls before the find, lru_last.pred the set of
\* values its predicate accepts.
C24_FindMissFrame ==
    (lru_last.kind = "find" /\ \A i \in 1..Len(lru_last.pre) :
                                  lru_last.pre[i].val \notin lru_last.pred) =>
        /\ lru_last.ret = None
        /\ data = lru_last.pre
        /\ Len(data) = Len(lru_last.pre)
        /\ Len(evicted) = lru_last.preEv

\* C24 witness: a find that missed on a cache of at least two entries with a
\* predicate that is not the empty one
C24_Witness ==
    /\ lru_last.kind = "find"
    /\ Len(lru_last.pre) >= 2
    /\ lru_last.pre[1] # lru_last.pre[2]
    /\ lru_last.pred # {}
    /\ \A i \in 1..Len(lru_last.pre) : lru_last.pre[i].val \notin lru_last.pred
    /\ lru_last.ret = None

\* C5: the drop hands the remaining entries to the handler tail first: the
\* least recently used first, the most recently used last.
C5_DropTailFirst ==
    lru_last.kind = "drop" =>
        LET pre == lru_last.pre
            n == Len(pre)
        IN /\ Len(evicted) = lru_last.preEv + n
           /\ data = <<>>
           /\ \A i \in 1..n : evicted[lru_last.preEv + i].item = pre[n - i + 1]

\* C5 witness: the drop of a cache that held three entries, reordered by a find
C5_Witness ==
    /\ lru_last.kind = "drop"
    /\ Len(lru_last.pre) >= 3
    /\ lru_found
    /\ lru_last.pre[1].id < lru_last.pre[2].id

\* ------------------------------------------------- BlockCache (cache.rs)

Addrs == 0..MaxAddr

\* a buffer of n bytes: k + 1, k + 2, ...
Pattern(k, n) == [i \in 1..n |-> (k + i) % 256]

\* the bytes block a of the device holds when the BlockCache is made
DevInitBlock(a, n) == Pattern(16 * (a + 1), n)

\* BlockDevice::read_block of the wrapped device, with a buffer of block_size
\* bytes; ok says whether the device succeeds
DevReadBlock(dev, a, buf, ok) ==
    IF ok
    THEN [res |-> Ok(Len(buf)), buf |-> dev[a]]
    ELSE [res |-> Err("BadAddress"), buf |-> buf]

\* BlockDevice::write_block of the wrapped device, with a buffer of
\* block_size bytes; ok says whether the device succeeds
DevWriteBlock(dev, a, buf, ok) ==
    IF ok
    THEN [res |-> Ok(Len(buf)), dev |-> [dev EXCEPT ![a] = buf]]
    ELSE [res |-> Err("BadAddress"), dev |-> dev]

\* Drop for Block: one write_block(num, data) on the device, result ignored
block_drop(dev, b, ok) ==
    LET w == DevWriteBlock(dev, b.num, b.data, ok)
    IN [dev |-> w.dev,
        calls |-> <<[num |-> b.num, data |-> b.data, res |-> w.res]>>]

\* faulty variant of RunEvictions below: the first write_block that fails ends
\* the run
RECURSIVE RunEvictions_stop(_, _, _, _)
RunEvictions_stop(dev, calls, wOk, log) ==
    IF calls = <<>> THEN [dev |-> dev, writes |-> log]
    ELSE LET b == Head(calls).item
             r == block_drop(dev, b, wOk)
         IN IF wOk
            THEN RunEvictions_stop(r.dev, Tail(calls), wOk, log \o r.calls)
            ELSE [dev |-> r.dev, writes |-> log \o r.calls]

\* The eviction handler of the BlockCache's LruCache is the default one
\* (LruCache::new: |v| drop(v)); in a single thread the evicted Rc is the last
\* reference to its Block, so each handler call runs Drop for Block. wOk says
\* whether the device's write_block succeeds.
RECURSIVE RunEvictions(_, _, _, _)
RunEvictions(dev, calls, wOk, log) ==
    IF calls = <<>> THEN [dev |-> dev, writes |-> log]
    ELSE LET b == Head(calls).item
             r == block_drop(dev, b, wOk)
         IN RunEvictions(r.dev, Tail(calls), wOk, log \o r.calls)

\* the predicate |b| b.read().num == block
NumIs(d, block) == {b \in SeqRange(d) : b.num = block}

\* the call that never returns: the caller spins for a lock for ever
Hang == [tag |-> "Hang"]

\* BlockCache::read_block(block, buf), lines 64-74: the length check and the
\* lookup. done says whether the call returns here (short buffer, or a hit
\* and its copy_from_slice); otherwise the call goes on to the device read.
cache_read_find(c, block_size, block, buffer) ==
    LET len == Len(buffer)
        res == find(c.data, NumIs(c.data, block))
    IN IF len < block_size
       THEN [done |-> TRUE, res |-> Err("BufferTooSmall"), buf |-> buffer,
             cache |-> c, hit |-> FALSE]
       ELSE IF res.ret # None
       THEN LET b == res.ret[1]
            IN [done |-> TRUE,
                res |-> IF len = Len(b.data) THEN Ok(len) ELSE Panic,
                buf |-> IF len = Len(b.data) THEN b.data ELSE buffer,
                cache |-> [c EXCEPT !.data = res.data], hit |-> TRUE]
       ELSE [done |-> FALSE, res |-> Ok(0), buf |-> buffer,
             cache |-> [c EXCEPT !.data = res.data], hit |-> FALSE]

\* faulty variant: the zeroed block is inserted although the device read failed
cache_read_miss_insert_failed(c, dev, block_size, block, buffer, rOk, wOk, held) ==
    LET len == Len(buffer)
        dr == DevReadBlock(dev, block, Zeros(block_size), rOk)
        b == [num |-> block, data |-> dr.buf]
        ins == insert(c.data, c.max_size, b)
        ev == RunEvictions(dev, ins.calls, wOk, <<>>)
    IN IF dr.res.tag # "Ok"
       THEN [res |-> dr.res, buf |-> buffer, cache |-> [c EXCEPT !.data = ins.data],
             dev |-> dev, reads |-> <<block>>, writes |-> <<>>, inserted |-> None]
       ELSE IF held /\ ins.calls # <<>>
       THEN [res |-> Hang, buf |-> buffer,
             cache |-> [c EXCEPT !.data = Tail(ins.data)], dev |-> dev,
             reads |-> <<block>>, writes |-> <<>>, inserted |-> None]
       ELSE [res |-> IF len = Len(b.data) THEN Ok(len) ELSE Panic,
             buf |-> IF len = Len(b.data) THEN b.data ELSE buffer,
             cache |-> [c EXCEPT !.data = ins.data], dev |-> ev.dev,
             reads |-> <<block>>, writes |-> ev.writes, inserted |-> Some(b)]

\* BlockCache::read_block(block, buf), lines 75-91, from the return of the
\* device's read_block on: `?`, the new Block, the insert with its eviction,
\* copy_from_slice and the return. rOk says whether the device's read_block
\* succeeded, wOk whether its write_block does. held says whether an outer
\* read_block call is inside the device's read_block and so holds
\* device.read(): Drop for Block of an evicted block then waits in
\* device.write() (line 25) for ever, with the block popped and the new one
\* not yet pushed (lru.rs 42-46).
cache_read_miss(c, dev, block_size, block, buffer, rOk, wOk, held) ==
    LET len == Len(buffer)
        dr == DevReadBlock(dev, block, Zeros(block_size), rOk)
        b == [num |-> block, data |-> dr.buf]
        ins == insert(c.data, c.max_size, b)
        ev == RunEvictions(dev, ins.calls, wOk, <<>>)
    IN IF dr.res.tag # "Ok"
       THEN [res |-> dr.res, buf |-> buffer, cache |-> c, dev |-> dev,
             reads |-> <<block>>, writes |-> <<>>, inserted |-> None]
       ELSE IF held /\ ins.calls # <<>>
       THEN [res |-> Hang, buf |-> buffer,
             cache |-> [c EXCEPT !.data = Tail(ins.data)], dev |-> dev,
             reads |-> <<block>>, writes |-> <<>>, inserted |-> None]
       ELSE [res |-> IF len = Len(b.data) THEN Ok(len) ELSE Panic,
             buf |-> IF len = Len(b.data) THEN b.data ELSE buffer,
             cache |-> [c EXCEPT !.data = ins.data], dev |-> ev.dev,
             reads |-> <<block>>, writes |-> ev.writes, inserted |-> Some(b)]

\* faulty variant: the cached entry of the written address is dropped from the
\* cache
cache_write_block_invalidate(c, dev, block, buf, ok) ==
    LET w == DevWriteBlock(dev, block, buf, ok)
        keep == SelectSeq(c.data, LAMBDA b : b.num # block)
    IN [res |-> w.res, cache |-> [c EXCEPT !.data = keep], dev |-> w.dev,
        writes |-> <<[num |-> block, data |-> buf, res |-> w.res]>>]

\* BlockCache::write_block(block, buf): forwarded to the device
cache_write_block(c, dev, block, buf, ok) ==
    LET w == DevWriteBlock(dev, block, buf, ok)
    IN [res |-> w.res, cache |-> c, dev |-> w.dev,
        writes |-> <<[num |-> block, data |-> buf, res |-> w.res]>>]

\* faulty variant: block_size() is forwarded to the device
cache_block_size_requery(block_size) ==
    [ret |-> block_size, device_calls |-> 1]

\* BlockCache::block_size(): the field set by new; device_calls is the number
\* of block_size() calls it makes of the device
cache_block_size(block_size) ==
    [ret |-> block_size, device_calls |-> 0]

\* Drop of the BlockCache: its LruCache is dropped, which evicts every entry
cache_drop(c, dev, wOk) ==
    LET d == drop(c.data)
        ev == RunEvictions(dev, d.calls, wOk, <<>>)
    IN [cache |-> [c EXCEPT !.data = d.data], dev |-> ev.dev, writes |-> ev.writes]

\* the bag of the [num, data] of the elements of a sequence
RECURSIVE BagOfBlocks(_)
BagOfBlocks(q) ==
    IF q = <<>> THEN EmptyBag
    ELSE SetToBag({[num |-> Head(q).num, data |-> Head(q).data]})
             (+) BagOfBlocks(Tail(q))

BcNoCall ==
    [kind |-> "new", addr |-> 0, len |-> 0, buf |-> <<>>, res |-> Ok(0),
     out |-> <<>>, reads |-> <<>>, writes |-> <<>>, hit |-> FALSE,
     after_write |-> None]

\* Some(B) when the call before the one at address a was a successful
\* write_block(a, B)
AfterWrite(a) ==
    IF bc_last.kind = "write" /\ bc_last.addr = a /\ bc_last.res.tag = "Ok"
    THEN Some(bc_last.buf)
    ELSE None

\* BlockCache::new(device, size): block_size() is asked of the device once
CacheNew ==
    /\ bc_block_size \in CacheBlockSizes
    /\ bc_cache \in {[max_size |-> n, data |-> <<>>] : n \in 0..MaxCacheCap}
    /\ bc_dev = [a \in Addrs |-> DevInitBlock(a, bc_block_size)]
    /\ bc_alive = TRUE
    /\ bc_stack = <<>>
    /\ bc_stats = [ops |-> 0, nested |-> FALSE, block_size_calls |-> 1, misses |-> 0,
                   reads |-> [a \in Addrs |-> 0],
                   last_read |-> [a \in Addrs |-> 0],
                   first |-> [a \in Addrs |-> None],
                   touched |-> {}, allOk |-> TRUE,
                   inserted |-> EmptyBag, written_back |-> EmptyBag]
    /\ bc_last = BcNoCall

\* no caller spins for a lock for ever
BcRunning == bc_alive /\ bc_last.kind # "hang"

\* the record of a read_block call that ended
ReadDone(block, len, r, reads, writes, hit, inserted) ==
    /\ bc_stats' =
         [bc_stats EXCEPT
             !.ops = @ + 1,
             !.misses = IF inserted # None THEN @ + 1 ELSE @,
             !.reads = IF reads = <<>> THEN @
                       ELSE [@ EXCEPT ![block] = @ + 1],
             !.last_read = IF hit \/ reads # <<>>
                           THEN [@ EXCEPT ![block] = bc_stats.ops + 1]
                           ELSE @,
             !.first = IF inserted # None /\ @[block] = None
                       THEN [@ EXCEPT ![block] = Some(inserted[1].data)]
                       ELSE @,
             !.touched = @ \cup {block},
             !.allOk = @ /\ r.res.tag = "Ok",
             !.inserted = @ (+) BagOfBlocks(inserted),
             !.written_back = @ (+) BagOfBlocks(writes)]
    /\ bc_last' = [kind |-> "read", addr |-> block, len |-> len,
                   buf |-> <<>>, res |-> r.res, out |-> r.buf,
                   reads |-> reads, writes |-> writes, hit |-> hit,
                   after_write |-> AfterWrite(block)]

\* read_block(block, buf) is called with a zeroed buffer, by the user of the
\* cache or, while a read_block call is inside the device's read_block, by
\* the device. The call returns (short buffer, hit) or goes into the
\* device's read_block (miss).
CacheReadBlock ==
    /\ BcRunning
    /\ bc_stats.ops + Len(bc_stack) < MaxCacheOps
    /\ \E block \in Addrs, len \in (bc_block_size - 1)..(bc_block_size + 1) :
        LET r == cache_read_find(bc_cache, bc_block_size, block, Zeros(len))
        IN IF r.done
           THEN /\ bc_cache' = r.cache
                /\ ReadDone(block, len, r, <<>>, <<>>, r.hit, None)
                /\ UNCHANGED bc_stack
           ELSE /\ bc_stack' = Append(bc_stack, [block |-> block, len |-> len])
                /\ bc_stats' = [bc_stats EXCEPT
                                   !.nested = @ \/ bc_stack # <<>>]
                /\ UNCHANGED <<bc_cache, bc_last>>
    /\ UNCHANGED <<bc_block_size, bc_dev, bc_alive>>
    /\ UNCHANGED <<lruVars, raVars, cowVars, ccVars, dqVars, rxVars, opVars>>

\* the device's read_block of the innermost read_block call returns, and the
\* call runs to its end (lines 77-91)
CacheReadReturn ==
    /\ BcRunning
    /\ bc_stack # <<>>
    /\ \E rOk \in BOOLEAN, wOk \in BOOLEAN :
        LET f == Last(bc_stack)
            r == cache_read_miss(bc_cache, bc_dev, bc_block_size, f.block,
                                 Zeros(f.len), rOk, wOk, Len(bc_stack) > 1)
        IN \* the device decides only the calls that are made of it
           /\ r.writes = <<>> => wOk
           /\ bc_cache' = r.cache
           /\ bc_dev' = r.dev
           /\ IF r.res = Hang
              THEN /\ bc_last' = [kind |-> "hang", addr |-> f.block,
                                  len |-> f.len, buf |-> <<>>, res |-> r.res,
                                  out |-> r.buf, reads |-> r.reads,
                                  writes |-> r.writes, hit |-> FALSE,
                                  after_write |-> None]
                   /\ UNCHANGED <<bc_stack, bc_stats>>
              ELSE /\ bc_stack' = Front(bc_stack)
                   /\ ReadDone(f.block, f.len, r, r.reads, r.writes, FALSE,
                               r.inserted)
    /\ UNCHANGED <<bc_block_size, bc_alive>>
    /\ UNCHANGED <<lruVars, raVars, cowVars, ccVars, dqVars, rxVars, opVars>>

\* write_block takes &mut self: no read_block call is in progress
CacheWriteBlock ==
    /\ BcRunning
    /\ bc_stack = <<>>
    /\ bc_stats.ops < MaxCacheOps
    /\ \E block \in Addrs, k \in CachePatterns, ok \in BOOLEAN :
        LET buf == Pattern(k, bc_block_size)
            r == cache_write_block(bc_cache, bc_dev, block, buf, ok)
        IN /\ bc_cache' = r.cache
           /\ bc_dev' = r.dev
           /\ bc_stats' = [bc_stats EXCEPT !.ops = @ + 1]
           /\ bc_last' = [kind |-> "write", addr |-> block, len |-> Len(buf),
                          buf |-> buf, res |-> r.res, out |-> <<>>,
                          reads |-> <<>>, writes |-> r.writes, hit |-> FALSE,
                          after_write |-> None]
    /\ UNCHANGED <<bc_block_size, bc_alive, bc_stack>>
    /\ UNCHANGED <<lruVars, raVars, cowVars, ccVars, dqVars, rxVars, opVars>>

\* the BlockCache is dropped: no read_block call is in progress
CacheDrop ==
    /\ BcRunning
    /\ bc_stack = <<>>
    /\ \E wOk \in BOOLEAN :
        LET r == cache_drop(bc_cache, bc_dev, wOk)
        IN /\ r.writes = <<>> => wOk
           /\ bc_cache' = r.cache
           /\ bc_dev' = r.dev
           /\ bc_stats' = [bc_stats EXCEPT
                              !.written_back = @ (+) BagOfBlocks(r.writes)]
           /\ bc_last' = [BcNoCall EXCEPT !.kind = "drop", !.writes = r.writes]
    /\ bc_alive' = FALSE
    /\ UNCHANGED <<bc_block_size, bc_stack>>
    /\ UNCHANGED <<lruVars, raVars, cowVars, ccVars, dqVars, rxVars, opVars>>

\* BlockCache::block_size()
CacheBlockSize ==
    /\ BcRunning
    /\ bc_last.kind # "block_size"
    /\ LET r == cache_block_size(bc_block_size)
       IN /\ bc_stats' = [bc_stats EXCEPT !.block_size_calls = @ + r.device_calls]
          /\ bc_last' = [BcNoCall EXCEPT !.kind = "block_size", !.res = Ok(r.ret)]
    /\ UNCHANGED <<bc_cache, bc_block_size, bc_dev, bc_alive, bc_stack>>
    /\ UNCHANGED <<lruVars, raVars, cowVars, ccVars, dqVars, rxVars, opVars>>

InitCache ==
    /\ CacheNew
    /\ LruIdle
    /\ RaIdle
    /\ CowIdle
    /\ CcIdle
    /\ DqIdle
    /\ RxIdle
    /\ OpIdle

NextCache ==
    CacheReadBlock \/ CacheReadReturn \/ CacheWriteBlock \/ CacheDrop

SpecCache == InitCache /\ [][NextCache]_vars

\* a BlockCache whose block_size() is called as well
NextCacheSize ==
    \/ CacheReadBlock
    \/ CacheReadReturn
    \/ CacheWriteBlock
    \/ CacheDrop
    \/ CacheBlockSize

SpecCacheSize == InitCache /\ [][NextCacheSize]_vars


\* ----------------------------------------------------- BlockCache: claims

\* C7: in every reachable state of the cache, write_block(addr, B)
\* immediately followed by read_block(addr, out) yields out = B.
C7_CacheWriteThenRead ==
    (/\ bc_last.kind = "read"
     /\ bc_last.after_write # None
     /\ bc_last.res.tag = "Ok") =>
        bc_last.out = bc_last.after_write[1]

\* C9: while every read_block call has succeeded and at most max_size
\* distinct addresses have been read, the device's read_block has been called
\* exactly once per address read (on its first read); a later read of the
\* address is a hit, makes no device read and returns the bytes loaded on
\* the first read.
C9_OneDeviceReadPerAddress ==
    (bc_stats.allOk /\ Cardinality(bc_stats.touched) <= bc_cache.max_size) =>
        /\ \A a \in Addrs :
             bc_stats.reads[a] = IF a \in bc_stats.touched THEN 1 ELSE 0
        /\ bc_last.kind = "read" =>
             /\ bc_last.out = bc_stats.first[bc_last.addr][1]
             /\ bc_last.hit <=> bc_last.reads = <<>>

\* C10: every block inserted on a miss is written back exactly once, with
\* its own address and its cached bytes, when it is evicted or when the cache
\* is dropped: the write-backs made so far and the blocks still cached are
\* together the blocks inserted, and after the drop the number of write-back
\* calls is the number of misses that loaded a block.
C10_WriteBackExactlyOnce ==
    /\ bc_alive =>
         bc_stats.written_back (+) BagOfBlocks(bc_cache.data) = bc_stats.inserted
    /\ ~bc_alive =>
         /\ bc_cache.data = <<>>
         /\ bc_stats.written_back = bc_stats.inserted
         /\ BagCardinality(bc_stats.written_back) = bc_stats.misses
    /\ bc_last.kind \in {"read", "drop"} =>
         \A i \in 1..Len(bc_last.writes) :
            BagIn([num |-> bc_last.writes[i].num, data |-> bc_last.writes[i].data],
                  bc_stats.inserted)

\* the step is a call of read_block or write_block of the BlockCache
CacheCallStep == bc_stats'.ops = bc_stats.ops + 1

\* the bytes the cache holds for address a, None when a is not cached
CachedBytes(c, a) ==
    IF \E i \in 1..Len(c.data) : c.data[i].num = a
    THEN Some(c.data[CHOOSE i \in 1..Len(c.data) : c.data[i].num = a].data)
    ELSE None

\* C12: write_block(addr, B) makes exactly one write_block(addr, B) call of
\* the device and no read, returns that call's result, and leaves the cache
\* (entries, bytes, recency order) as it was; a read_block(addr) with a
\* block-size buffer right after it, addr being cached, makes no device read
\* and returns the bytes cached before.
C12_WriteBlockFrame ==
    [][CacheCallStep =>
        /\ bc_last'.kind = "write" =>
              /\ bc_last'.writes =
                    <<[num |-> bc_last'.addr, data |-> bc_last'.buf,
                       res |-> bc_last'.res]>>
              /\ bc_last'.reads = <<>>
              /\ bc_cache' = bc_cache
              /\ bc_last'.res.tag = "Ok" => bc_dev'[bc_last'.addr] = bc_last'.buf
              /\ bc_last'.res.tag # "Ok" => bc_dev' = bc_dev
        /\ (/\ bc_last.kind = "write"
            /\ bc_last'.kind = "read"
            /\ bc_last'.addr = bc_last.addr
            /\ bc_last'.len = bc_block_size
            /\ CachedBytes(bc_cache, bc_last.addr) # None) =>
              /\ bc_last'.reads = <<>>
              /\ bc_last'.res = Ok(bc_block_size)
              /\ bc_last'.out = CachedBytes(bc_cache, bc_last.addr)[1]]_vars

\* C12 witness: a read after a successful write_block of a cached address
\* is a hit and returns bytes that are not the written ones
C12_Witness ==
    /\ bc_last.kind = "read"
    /\ bc_last.after_write # None
    /\ bc_last.hit
    /\ bc_last.reads = <<>>
    /\ bc_last.res = Ok(bc_block_size)
    /\ bc_last.out # bc_last.after_write[1]
    /\ bc_dev[bc_last.addr] = bc_last.after_write[1]

\* the addresses the cache holds
CachedAddrs(c) == {c.data[i].num : i \in 1..Len(c.data)}

\* C28: a hit moves its block to the most recently used position and evicts
\* nothing; a miss on a full cache evicts the cached block whose latest
\* read_block is the oldest, which is never the block requested, and the
\* requested block is cached as the most recently used one.
C28_EvictsLeastRecentlyRead ==
    [][(CacheCallStep /\ bc_last'.kind = "read") =>
        LET a == bc_last'.addr IN
        /\ bc_last'.hit =>
              /\ bc_cache'.data[1].num = a
              /\ CachedAddrs(bc_cache') = CachedAddrs(bc_cache)
              /\ bc_last'.writes = <<>>
        /\ (/\ bc_stats'.misses = bc_stats.misses + 1
            /\ bc_cache.data # <<>>
            /\ Len(bc_cache.data) >= bc_cache.max_size) =>
              /\ Len(bc_last'.writes) = 1
              /\ LET e == bc_last'.writes[1].num IN
                    /\ e # a
                    /\ e \in CachedAddrs(bc_cache)
                    /\ \A b \in CachedAddrs(bc_cache) :
                          bc_stats.last_read[e] <= bc_stats.last_read[b]
                    /\ CachedAddrs(bc_cache') =
                          (CachedAddrs(bc_cache) \ {e}) \cup {a}
              /\ bc_cache'.data[1].num = a]_vars

\* C29: a write_block of the device that fails during a write-back is
\* discarded. The read_block whose insert evicted the block returns what it
\* returns when the write-back succeeds, Ok with the requested block's bytes
\* for a buffer of block_size bytes, and the evicted block is not cached any
\* more; the teardown makes one write-back per cached block, tail first,
\* whether or not they fail, and leaves the cache empty.
C29_WriteBackFailureDiscarded ==
    [][CacheCallStep \/ bc_alive' # bc_alive =>
        /\ (/\ bc_last'.kind = "read"
            /\ \E i \in 1..Len(bc_last'.writes) : bc_last'.writes[i].res.tag = "Err") =>
              LET a == bc_last'.addr
                  good == cache_read_miss(bc_cache, bc_dev, bc_block_size, a,
                                          Zeros(bc_last'.len), TRUE, TRUE, FALSE)
              IN /\ bc_last'.res = good.res
                 /\ bc_last'.out = good.buf
                 /\ bc_cache' = good.cache
                 /\ bc_last'.len = bc_block_size =>
                       /\ bc_last'.res = Ok(bc_block_size)
                       /\ bc_last'.out = bc_dev[a]
                 /\ Len(bc_last'.writes) = 1
                 /\ bc_last'.writes[1].num = Last(bc_cache.data).num
                 /\ bc_last'.writes[1].data = Last(bc_cache.data).data
                 /\ Tail(bc_cache'.data) = Front(bc_cache.data)
                 /\ bc_dev' = bc_dev
        /\ bc_last'.kind = "drop" =>
              /\ Len(bc_last'.writes) = Len(bc_cache.data)
              /\ \A i \in 1..Len(bc_last'.writes) :
                    LET b == bc_cache.data[Len(bc_cache.data) + 1 - i]
                    IN /\ bc_last'.writes[i].num = b.num
                       /\ bc_last'.writes[i].data = b.data
              /\ bc_cache'.data = <<>>]_vars

\* C29 witness: a read_block with a block-size buffer evicted a block whose
\* write-back failed, and returned Ok with the bytes of the requested block
C29_Witness ==
    /\ bc_last.kind = "read"
    /\ bc_last.len = bc_block_size
    /\ Len(bc_last.writes) = 1
    /\ bc_last.writes[1].res.tag = "Err"
    /\ bc_last.res = Ok(bc_block_size)
    /\ bc_last.out = bc_dev[bc_last.addr]
    /\ bc_last.writes[1].num \notin CachedAddrs(bc_cache)
    /\ bc_last.addr \in CachedAddrs(bc_cache)

\* C30: when the device's read_block fails on a miss, read_block returns the
\* device's error, makes no other device call, leaves the cache (entries and
\* recency order) and the device as they were and does not touch the buffer.
C30_FailedMissFrame ==
    [][(/\ CacheCallStep
        /\ bc_last'.kind = "read"
        /\ bc_last'.reads # <<>>
        /\ bc_stats'.misses = bc_stats.misses) =>
        /\ bc_last'.res = DevReadBlock(bc_dev, bc_last'.addr,
                                       Zeros(bc_block_size), FALSE).res
        /\ bc_last'.res.tag = "Err"
        /\ bc_last'.reads = <<bc_last'.addr>>
        /\ bc_last'.writes = <<>>
        /\ bc_cache' = bc_cache
        /\ bc_dev' = bc_dev
        /\ bc_last'.out = Zeros(bc_last'.len)]_vars

\* C30 witness: a miss whose device read failed while the cache was full, so
\* that an insert would have evicted a block
C30_Witness ==
    /\ bc_last.kind = "read"
    /\ bc_last.res = Err("BadAddress")
    /\ bc_last.reads = <<bc_last.addr>>
    /\ bc_last.writes = <<>>
    /\ bc_cache.max_size >= 1
    /\ Len(bc_cache.data) = bc_cache.max_size
    /\ bc_last.addr \notin CachedAddrs(bc_cache)
    /\ bc_last.out = Zeros(bc_last.len)

\* C32: the device's block_size() is called once, by BlockCache::new, and by
\* no block_size(), read_block, write_block, eviction or teardown after it;
\* BlockCache.block_size() returns the value new obtained.
C32_BlockSizeAskedOnce ==
    /\ bc_stats.block_size_calls = 1
    /\ bc_last.kind = "block_size" => bc_last.res = Ok(bc_block_size)

\* C32 witness: block_size() called after three calls that missed twice and
\* wrote a block back
C32_Witness ==
    /\ bc_last.kind = "block_size"
    /\ bc_last.res = Ok(bc_block_size)
    /\ bc_stats.ops = 3
    /\ bc_stats.misses >= 2
    /\ bc_stats.written_back # EmptyBag
    /\ bc_stats.block_size_calls = 1

\* C35: after a write_block(addr, B) that succeeded, the device's block at
\* addr holds B until the next write_block(addr, ...) of a caller. Stated for
\* the call that follows the write: unless it is a write_block of the same
\* address, the device still holds B at addr after it.
C35_WrittenBytesStay ==
    [][(/\ bc_alive
        /\ bc_last.kind = "write"
        /\ bc_last.res.tag = "Ok"
        /\ ~(bc_last'.kind = "write" /\ bc_last'.addr = bc_last.addr)) =>
            bc_dev'[bc_last.addr] = bc_last.buf]_vars

\* C17: read_block with a buffer of block_size bytes or more does not fail
\* with BufferTooSmall and does not panic; when it succeeds it returns
\* Ok(block_size) and the first block_size bytes of the buffer are the
\* block's bytes.
C17_CacheReadLongBuffer ==
    (bc_last.kind = "read" /\ bc_last.len >= bc_block_size) =>
        /\ bc_last.res # Err("BufferTooSmall")
        /\ bc_last.res.tag # "Panic"
        /\ bc_last.res.tag = "Ok" =>
              /\ bc_last.res = Ok(bc_block_size)
              /\ CachedBytes(bc_cache, bc_last.addr) # None
              /\ SubSeq(bc_last.out, 1, bc_block_size)
                    = CachedBytes(bc_cache, bc_last.addr)[1]

\* ------------------------------- BlockCache shared by several callers

\* read_block takes &self and holds the Mutex of the cache only inside the
\* statements of lines 71 and 84, and the device's read lock only inside the
\* statement of line 77: the calls of several callers interleave between
\* these statements. Each caller passes a buffer of block_size bytes or one
\* byte less. A cached block is [num, data, id], id telling one
\* Rc<RwLock<Block>> allocation from another; the strong count of an Rc is
\* taken to be exact. A call is made by a thread of its own or, the
\* BlockCache not being Sync, by the wrapped device from inside its
\* read_block (line 77) in the thread of the call that waits there:
\* cc_local[t].under is that outer call, 0 for a call of a thread of its own.
\* cc_local[t].out is the block insert has taken out of the list and whose
\* Drop waits for the device's write lock.

CcNoLocal == [block |-> 0, blk |-> None, under |-> 0, out |-> None]

\* a call made from inside the device's read_block of call u has not returned
Suspended(u) ==
    \E t \in Callers : cc_pc[t] # "idle" /\ cc_local[t].under = u

\* the callers that hold a clone of the Rc of block id
Holders(id) ==
    {t \in Callers : cc_local[t].blk # None /\ cc_local[t].blk[1].id = id}

\* the cache holds the Rc of block id
InCache(id) == \E i \in 1..Len(bc_cache.data) : bc_cache.data[i].id = id

\* RwLock::write of the device can be acquired
DevLockFree == cc_devlock.readers = {} /\ cc_devlock.writer = 0

CcNew ==
    /\ cc_pc = [t \in Callers |-> "idle"]
    /\ cc_local = [t \in Callers |-> CcNoLocal]
    /\ cc_mutex = 0
    /\ cc_devlock = [readers |-> {}, writer |-> 0]
    /\ cc_calls = [started |-> 0, blocks |-> 0]

\* read_block(block, buf), lines 64-69: a short buffer is refused at once
CcCall(t) ==
    /\ cc_pc[t] = "idle"
    /\ cc_calls.started < MaxConcCalls
    /\ \E block \in Addrs, len \in {bc_block_size - 1, bc_block_size},
          u \in {0} \cup {c \in Callers \ {t} :
                            cc_pc[c] = "dev_read" /\ ~Suspended(c)} :
        /\ cc_pc' = [cc_pc EXCEPT ![t] = IF len < bc_block_size THEN "idle"
                                         ELSE "find"]
        /\ cc_local' = [cc_local EXCEPT ![t] =
                            IF len < bc_block_size THEN CcNoLocal
                            ELSE [block |-> block, blk |-> None, under |-> u,
                                  out |-> None]]
    /\ cc_calls' = [cc_calls EXCEPT !.started = @ + 1]
    /\ UNCHANGED <<cc_mutex, cc_devlock>>
    /\ UNCHANGED <<lruVars, raVars, bcVars, cowVars, dqVars, rxVars, opVars>>

\* line 71: self.cache.lock().find(|b| b.read().num == block).cloned(); the
\* guard is dropped at the end of the statement
CcFind(t) ==
    /\ cc_pc[t] = "find"
    /\ cc_mutex = 0
    /\ LET res == find(bc_cache.data, NumIs(bc_cache.data, cc_local[t].block))
       IN /\ bc_cache' = [bc_cache EXCEPT !.data = res.data]
          /\ cc_local' = [cc_local EXCEPT ![t].blk = res.ret]
          /\ cc_pc' = [cc_pc EXCEPT ![t] = IF res.ret # None THEN "copy"
                                           ELSE "dev_lock"]
    /\ UNCHANGED <<cc_mutex, cc_devlock, cc_calls>>
    /\ UNCHANGED <<bc_block_size, bc_dev, bc_alive, bc_stack, bc_stats, bc_last>>
    /\ UNCHANGED <<lruVars, raVars, cowVars, dqVars, rxVars, opVars>>

\* line 77: self.device.read()
CcDevLock(t) ==
    /\ cc_pc[t] = "dev_lock"
    /\ cc_devlock.writer = 0
    /\ cc_devlock' = [cc_devlock EXCEPT !.readers = @ \cup {t}]
    /\ cc_pc' = [cc_pc EXCEPT ![t] = "dev_read"]
    /\ UNCHANGED <<cc_local, cc_mutex, cc_calls>>
    /\ UNCHANGED <<lruVars, raVars, bcVars, cowVars, dqVars, rxVars, opVars>>

\* lines 76-83: read_block of the device into a new buffer, the read lock
\* released, `?` on the result, the new Rc<RwLock<Block>>. The device's
\* read_block returns after the call it made of the cache.
CcDevRead(t) ==
    /\ cc_pc[t] = "dev_read"
    /\ ~Suspended(t)
    /\ \E rOk \in BOOLEAN :
        LET dr == DevReadBlock(bc_dev, cc_local[t].block, Zeros(bc_block_size),
                               rOk)
            b == [num |-> cc_local[t].block, data |-> dr.buf,
                  id |-> cc_calls.blocks + 1]
        IN IF dr.res.tag = "Ok"
           THEN /\ cc_local' = [cc_local EXCEPT ![t].blk = Some(b)]
                /\ cc_calls' = [cc_calls EXCEPT !.blocks = @ + 1]
                /\ cc_pc' = [cc_pc EXCEPT ![t] = "insert_lock"]
           ELSE /\ cc_local' = [cc_local EXCEPT ![t] = CcNoLocal]
                /\ cc_calls' = cc_calls
                /\ cc_pc' = [cc_pc EXCEPT ![t] = "idle"]
    /\ cc_devlock' = [cc_devlock EXCEPT !.readers = @ \ {t}]
    /\ UNCHANGED cc_mutex
    /\ UNCHANGED <<lruVars, raVars, bcVars, cowVars, dqVars, rxVars, opVars>>

\* line 84: self.cache.lock()
CcInsertLock(t) ==
    /\ cc_pc[t] = "insert_lock"
    /\ cc_mutex = 0
    /\ cc_mutex' = t
    /\ cc_pc' = [cc_pc EXCEPT ![t] = "insert"]
    /\ UNCHANGED <<cc_local, cc_devlock, cc_calls>>
    /\ UNCHANGED <<lruVars, raVars, bcVars, cowVars, dqVars, rxVars, opVars>>

\* line 84: insert(b.clone()) with the Mutex held, up to the wait of Drop for
\* Block. lru.rs insert takes the tail out of the list (pop_back) when the
\* list is full, and the handler drops the Rc it is given. When a caller
\* holds a clone, or nothing is taken out, the new block is pushed to the
\* front and the Mutex released; when it was the last Rc, Drop for Block
\* runs and the caller waits for the device's write lock, the tail out of
\* the list and the new block not yet in it.
CcInsert(t) ==
    /\ cc_pc[t] = "insert"
    /\ cc_mutex = t
    /\ LET ins == insert(bc_cache.data, bc_cache.max_size, cc_local[t].blk[1])
           last == SelectSeq(ins.calls, LAMBDA c : Holders(c.item.id) = {})
       IN IF last = <<>>
          THEN /\ bc_cache' = [bc_cache EXCEPT !.data = ins.data]
               /\ cc_mutex' = 0
               /\ cc_pc' = [cc_pc EXCEPT ![t] = "copy"]
               /\ UNCHANGED cc_local
          ELSE /\ bc_cache' = [bc_cache EXCEPT !.data = Tail(ins.data)]
               /\ cc_local' = [cc_local EXCEPT ![t].out = Some(last[1].item)]
               /\ cc_pc' = [cc_pc EXCEPT ![t] = "evict"]
               /\ UNCHANGED cc_mutex
    /\ UNCHANGED <<cc_devlock, cc_calls>>
    /\ UNCHANGED <<bc_block_size, bc_dev, bc_alive, bc_stack, bc_stats, bc_last>>
    /\ UNCHANGED <<lruVars, raVars, cowVars, dqVars, rxVars, opVars>>

\* line 84, the rest of insert: Drop for Block of the block taken out gets
\* the device's write lock (cache.rs 25), which no caller reading the device
\* allows, and writes the block back, the result dropped; then push_front of
\* the new block (lru.rs 46) and the release of the Mutex.
CcEvict(t) ==
    /\ cc_pc[t] = "evict"
    /\ cc_mutex = t
    /\ DevLockFree
    /\ \E wOk \in BOOLEAN :
        LET w == block_drop(bc_dev, cc_local[t].out[1], wOk)
        IN bc_dev' = w.dev
    /\ bc_cache' = [bc_cache EXCEPT !.data = <<cc_local[t].blk[1]>> \o @]
    /\ cc_local' = [cc_local EXCEPT ![t].out = None]
    /\ cc_mutex' = 0
    /\ cc_pc' = [cc_pc EXCEPT ![t] = "copy"]
    /\ UNCHANGED <<cc_devlock, cc_calls>>
    /\ UNCHANGED <<bc_block_size, bc_alive, bc_stack, bc_stats, bc_last>>
    /\ UNCHANGED <<lruVars, raVars, cowVars, dqVars, rxVars, opVars>>

\* lines 88-91: copy_from_slice into the buffer (of block_size bytes), Ok, and
\* the caller's Rc dropped on return; when it was the last one, Drop for
\* Block runs and takes the device's write lock
CcCopyReturn(t) ==
    /\ cc_pc[t] = "copy"
    /\ \E wOk \in BOOLEAN :
        LET b == cc_local[t].blk[1]
            last == ~InCache(b.id) /\ Holders(b.id) = {t}
            w == block_drop(bc_dev, b, wOk)
        IN /\ last => DevLockFree
           /\ bc_dev' = IF last THEN w.dev ELSE bc_dev
    /\ cc_local' = [cc_local EXCEPT ![t] = CcNoLocal]
    /\ cc_pc' = [cc_pc EXCEPT ![t] = "idle"]
    /\ UNCHANGED <<cc_mutex, cc_devlock, cc_calls>>
    /\ UNCHANGED <<bc_cache, bc_block_size, bc_alive, bc_stack, bc_stats, bc_last>>
    /\ UNCHANGED <<lruVars, raVars, cowVars, dqVars, rxVars, opVars>>

InitCacheConc ==
    /\ CacheNew
    /\ CcNew
    /\ LruIdle
    /\ RaIdle
    /\ CowIdle
    /\ DqIdle
    /\ RxIdle
    /\ OpIdle

NextCacheConc ==
    \E t \in Callers :
        \/ CcCall(t)
        \/ CcFind(t)
        \/ CcDevLock(t)
        \/ CcDevRead(t)
        \/ CcInsertLock(t)
        \/ CcInsert(t)
        \/ CcEvict(t)
        \/ CcCopyReturn(t)

SpecCacheConc == InitCacheConc /\ [][NextCacheConc]_vars

\* the steps of caller t inside read_block
CcStep(t) ==
    \/ CcFind(t)
    \/ CcDevLock(t)
    \/ CcDevRead(t)
    \/ CcInsertLock(t)
    \/ CcInsert(t)
    \/ CcEvict(t)
    \/ CcCopyReturn(t)

\* the shared BlockCache under a fair scheduler: a caller whose next
\* statement can run does run it
SpecCacheConcFair ==
    /\ InitCacheConc
    /\ [][NextCacheConc]_vars
    /\ \A t \in Callers : WF_vars(CcStep(t))

\* C34: under every interleaving of read_block calls, evictions with their
\* write-back under the cache Mutex included, every read_block that was
\* started returns: no caller waits for ever for the Mutex or the device lock.
C34_EveryCallReturns ==
    \A t \in Callers : (cc_pc[t] # "idle") ~> (cc_pc[t] = "idle")

\* C11: under every interleaving of read_block calls the cache holds at
\* most one entry per block address.
C11_OneEntryPerAddress ==
    \A i, j \in 1..Len(bc_cache.data) :
        i # j => bc_cache.data[i].num # bc_cache.data[j].num

\* ------------------------------------------------ CowBlockDevice (cow.rs)

\* the length of an overlay block: struct Block(Rc<RwLock<[u8; 512]>>)
OverlayLen == 512

CowAddrs == 0..MaxCowAddr

\* the bytes block a of the backing device holds
BackingBlock(a, n) == Pattern(64 * (a + 1), n)

\* BlockDevice::read_block of the backing device: the first block_size bytes
\* of the buffer are filled; ok says whether the device succeeds. A buffer
\* shorter than block_size is refused the way the device does it
\* (inner.short): with BufferTooSmall as BlockCache and CowBlockDevice do, or
\* with a panic as OneDevice does (buffer[0..block_size] is out of range).
InnerReadBlock(inner, a, buf, ok) ==
    IF Len(buf) < inner.block_size
    THEN [res |-> IF inner.short = "panic" THEN Panic ELSE Err("BufferTooSmall"),
          buf |-> buf]
    ELSE IF ~ok
    THEN [res |-> Err("BadAddress"), buf |-> buf]
    ELSE [res |-> Ok(inner.block_size),
          buf |-> inner.blocks[a] \o SubSeq(buf, inner.block_size + 1, Len(buf))]

\* faulty variant: the block is put into the overlay before it is filled, and
\* stays there when the backing device fails
load_block_insert_first(inner, blocks, block, ok) ==
    LET b == Zeros(OverlayLen)
        r == InnerReadBlock(inner, block, b, ok)
    IN [res |-> IF r.res.tag # "Ok" THEN r.res ELSE Ok(0),
        blocks |-> [a \in DOMAIN blocks \cup {block} |->
                       IF a = block THEN r.buf ELSE blocks[a]],
        inner |-> inner,
        inner_res |-> r.res]

\* faulty variant: the block is moved out of the backing device, which is left
\* holding zeroes at the address
load_block_moves(inner, blocks, block, ok) ==
    LET b == Zeros(OverlayLen)
        r == InnerReadBlock(inner, block, b, ok)
    IN IF r.res.tag # "Ok"
       THEN [res |-> r.res, blocks |-> blocks, inner |-> inner, inner_res |-> r.res]
       ELSE [res |-> Ok(0),
             blocks |-> [a \in DOMAIN blocks \cup {block} |->
                            IF a = block THEN r.buf ELSE blocks[a]],
             inner |-> [inner EXCEPT !.blocks[block] = Zeros(inner.block_size)],
             inner_res |-> r.res]

\* CowBlockDevice::load_block: a new zeroed Block is filled from the backing
\* device and inserted into the overlay; the only call made of the backing
\* device is read_block (inner_res is its result), which takes &self
load_block(inner, blocks, block, ok) ==
    LET b == Zeros(OverlayLen)
        r == InnerReadBlock(inner, block, b, ok)
    IN IF r.res.tag # "Ok"
       THEN [res |-> r.res, blocks |-> blocks, inner |-> inner, inner_res |-> r.res]
       ELSE [res |-> Ok(0),
             blocks |-> [a \in DOMAIN blocks \cup {block} |->
                            IF a = block THEN r.buf ELSE blocks[a]],
             inner |-> inner,
             inner_res |-> r.res]

\* faulty variant: the write lands in a copy of the block, not in the shared one
copy_to_block_lost(b, block_size, buffer) ==
    IF block_size > Len(b) \/ Len(buffer) # block_size
    THEN [ok |-> FALSE, b |-> b]
    ELSE [ok |-> TRUE, b |-> b]

\* b.0.write()[0..block_size].copy_from_slice(buffer): the slice must be in
\* range and as long as the buffer, or the call panics
copy_to_block(b, block_size, buffer) ==
    IF block_size > Len(b) \/ Len(buffer) # block_size
    THEN [ok |-> FALSE, b |-> b]
    ELSE [ok |-> TRUE, b |-> buffer \o SubSeq(b, block_size + 1, Len(b))]

\* buffer[0..block_size].copy_from_slice(b.0.read().as_slice()), called with
\* Len(buffer) >= block_size: the block must be block_size long, or the call
\* panics
copy_from_block(buffer, block_size, b) ==
    IF Len(b) # block_size
    THEN [ok |-> FALSE, buf |-> buffer]
    ELSE [ok |-> TRUE, buf |-> b \o SubSeq(buffer, block_size + 1, Len(buffer))]

\* faulty variant: a read of an address that is not in the overlay loads it
\* from the backing device first
cow_read_block_through(inner, blocks, block, buffer) ==
    LET block_size == inner.block_size
        same == [res |-> Panic, buf |-> buffer, blocks |-> blocks,
                 reads |-> <<>>]
        ld == load_block(inner, blocks, block, TRUE)
        through == block \notin DOMAIN blocks /\ ld.res.tag = "Ok"
        now == IF through THEN ld.blocks ELSE blocks
        made == IF block \notin DOMAIN blocks THEN <<block>> ELSE <<>>
    IN IF Len(buffer) < block_size
       THEN [same EXCEPT !.res = Err("BufferTooSmall")]
       ELSE IF block \in DOMAIN now
       THEN LET c == copy_from_block(buffer, block_size, now[block])
            IN IF c.ok
               THEN [same EXCEPT !.res = Ok(block_size), !.buf = c.buf,
                                 !.blocks = now, !.reads = made]
               ELSE [same EXCEPT !.blocks = now, !.reads = made]
       ELSE [same EXCEPT !.res = Err("NoSuchBlock"), !.reads = made]

\* CowBlockDevice::read_block(block, buf)
cow_read_block(inner, blocks, block, buffer) ==
    LET block_size == inner.block_size
        same == [res |-> Panic, buf |-> buffer, blocks |-> blocks,
                 reads |-> <<>>]
    IN IF Len(buffer) < block_size
       THEN [same EXCEPT !.res = Err("BufferTooSmall")]
       ELSE IF block \in DOMAIN blocks
       THEN LET c == copy_from_block(buffer, block_size, blocks[block])
            IN IF c.ok
               THEN [same EXCEPT !.res = Ok(block_size), !.buf = c.buf]
               ELSE same
       ELSE [same EXCEPT !.res = Err("NoSuchBlock")]

\* faulty variant: the address is loaded before the length of the buffer is
\* looked at
cow_write_block_load_first(inner, blocks, block, buffer, ok) ==
    LET block_size == inner.block_size
    IN LET absent == block \notin DOMAIN blocks
           ld == IF absent THEN load_block(inner, blocks, block, ok)
                 ELSE [res |-> Ok(0), blocks |-> blocks, inner |-> inner,
                       inner_res |-> Ok(0)]
           reads == IF absent THEN <<block>> ELSE <<>>
           inner_res == IF absent THEN Some(ld.inner_res) ELSE None
       IN IF Len(buffer) < block_size
          THEN [res |-> Err("BufferTooSmall"), blocks |-> ld.blocks,
                inner |-> ld.inner, reads |-> reads, inner_res |-> inner_res]
          ELSE IF ld.res.tag # "Ok"
          THEN [res |-> ld.res, blocks |-> ld.blocks, inner |-> ld.inner,
                reads |-> reads, inner_res |-> inner_res]
          ELSE LET c == copy_to_block(ld.blocks[block], block_size, buffer)
               IN IF c.ok
                  THEN [res |-> Ok(block_size),
                        blocks |-> [ld.blocks EXCEPT ![block] = c.b],
                        inner |-> ld.inner,
                        reads |-> reads, inner_res |-> inner_res]
                  ELSE [res |-> Panic, blocks |-> ld.blocks, inner |-> ld.inner,
                        reads |-> reads, inner_res |-> inner_res]

\* CowBlockDevice::write_block(block, buf): the result, the overlay and the
\* backing device after the call, the blocks read of the backing device and
\* the result of that read. ok says whether the backing device's read_block
\* succeeds.
cow_write_block(inner, blocks, block, buffer, ok) ==
    LET block_size == inner.block_size
    IN IF Len(buffer) < block_size
       THEN [res |-> Err("BufferTooSmall"), blocks |-> blocks, inner |-> inner,
             reads |-> <<>>, inner_res |-> None]
       ELSE
       LET absent == block \notin DOMAIN blocks
           ld == IF absent THEN load_block(inner, blocks, block, ok)
                 ELSE [res |-> Ok(0), blocks |-> blocks, inner |-> inner,
                       inner_res |-> Ok(0)]
           reads == IF absent THEN <<block>> ELSE <<>>
           inner_res == IF absent THEN Some(ld.inner_res) ELSE None
       IN IF ld.res.tag # "Ok"
          THEN [res |-> ld.res, blocks |-> ld.blocks, inner |-> ld.inner,
                reads |-> reads, inner_res |-> inner_res]
          ELSE LET c == copy_to_block(ld.blocks[block], block_size, buffer)
               IN IF c.ok
                  THEN [res |-> Ok(block_size),
                        blocks |-> [ld.blocks EXCEPT ![block] = c.b],
                        inner |-> ld.inner,
                        reads |-> reads, inner_res |-> inner_res]
                  ELSE [res |-> Panic, blocks |-> ld.blocks, inner |-> ld.inner,
                        reads |-> reads, inner_res |-> inner_res]

CowNoCall ==
    [kind |-> "new", addr |-> 0, len |-> 0, buf |-> <<>>, res |-> Ok(0),
     out |-> <<>>, reads |-> <<>>, inner_res |-> None]

\* a CowBlockDevice over a backing device, with an empty overlay
CowNew ==
    /\ cow_inner \in {[block_size |-> n, short |-> sh,
                       blocks |-> [a \in CowAddrs |-> BackingBlock(a, n)]] :
                        n \in CowBlockSizes, sh \in {"err", "panic"}}
    \* the overlay only ever passes buffers of OverlayLen bytes to the device
    /\ cow_inner.block_size <= OverlayLen => cow_inner.short = "err"
    /\ cow_blocks = <<>>
    /\ cow_stats = [ops |-> 0, inner_reads |-> [a \in CowAddrs |-> 0],
                    written |-> [a \in CowAddrs |-> None]]
    /\ cow_last = CowNoCall

\* the lengths of the buffers given to read_block and write_block
CowBufLens == {cow_inner.block_size - 1, cow_inner.block_size,
               cow_inner.block_size + 1}

CowReadBlock ==
    /\ cow_stats.ops < MaxCowOps
    /\ \E block \in CowAddrs, len \in CowBufLens :
        LET r == cow_read_block(cow_inner, cow_blocks, block, Zeros(len))
        IN /\ cow_blocks' = r.blocks
           /\ cow_stats' =
                [cow_stats EXCEPT
                    !.ops = @ + 1,
                    !.inner_reads = IF r.reads = <<>> THEN @
                                    ELSE [@ EXCEPT ![block] = @ + 1]]
           /\ cow_last' = [kind |-> "read", addr |-> block, len |-> len,
                           buf |-> <<>>, res |-> r.res, out |-> r.buf,
                           reads |-> r.reads, inner_res |-> None]
    /\ UNCHANGED cow_inner
    /\ UNCHANGED <<lruVars, raVars, bcVars, ccVars, dqVars, rxVars, opVars>>

CowWriteBlock ==
    /\ cow_stats.ops < MaxCowOps
    /\ \E block \in CowAddrs, len \in CowBufLens, k \in CowPatterns,
          ok \in BOOLEAN :
        \* the backing device is asked only for an address not in the overlay
        LET buf == Pattern(k, len)
            r == cow_write_block(cow_inner, cow_blocks, block, buf, ok)
        IN /\ block \in DOMAIN cow_blocks => ok
           /\ cow_blocks' = r.blocks
           /\ cow_inner' = r.inner
           /\ cow_stats' =
                [cow_stats EXCEPT
                    !.ops = @ + 1,
                    !.inner_reads = IF r.reads = <<>> THEN @
                                    ELSE [@ EXCEPT ![block] = @ + 1],
                    !.written = IF r.res.tag = "Ok"
                                THEN [@ EXCEPT ![block] = Some(buf)]
                                ELSE @]
           /\ cow_last' = [kind |-> "write", addr |-> block, len |-> len,
                           buf |-> buf, res |-> r.res, out |-> <<>>,
                           reads |-> r.reads, inner_res |-> r.inner_res]
    /\ UNCHANGED <<lruVars, raVars, bcVars, ccVars, dqVars, rxVars, opVars>>

InitCow ==
    /\ CowNew
    /\ LruIdle
    /\ RaIdle
    /\ BcIdle
    /\ CcIdle
    /\ DqIdle
    /\ RxIdle
    /\ OpIdle

NextCow == CowReadBlock \/ CowWriteBlock

SpecCow == InitCow /\ [][NextCow]_vars

\* ------------------------------------------------- CowBlockDevice: claims

\* C8: over a backing device whose block_size is the overlay buffer size
\* (512), once write_block(addr, B) has succeeded with a block-size buffer B,
\* every read_block(addr, out) succeeds with out = B, whatever reads and
\* writes to other addresses come between, until the next write to addr.
C8_CowReadsLastWrite ==
    (/\ cow_inner.block_size = OverlayLen
     /\ cow_last.kind = "read"
     /\ cow_last.len >= cow_inner.block_size
     /\ cow_stats.written[cow_last.addr] # None) =>
        /\ cow_last.res = Ok(cow_inner.block_size)
        /\ SubSeq(cow_last.out, 1, cow_inner.block_size)
             = cow_stats.written[cow_last.addr][1]

\* C8 witness: a read that returns the second of two buffers written to its
\* address
C8_Witness ==
    /\ cow_inner.block_size = OverlayLen
    /\ cow_last.kind = "read"
    /\ cow_last.res.tag = "Ok"
    /\ cow_stats.ops >= 3
    /\ cow_stats.inner_reads[cow_last.addr] = 1
    /\ cow_stats.written[cow_last.addr] = Some(Pattern(1, OverlayLen))
    /\ cow_last.out = Pattern(1, OverlayLen)

\* the bytes block a of the backing device held when the overlay was made
BackingAtStart == [a \in CowAddrs |-> BackingBlock(a, cow_inner.block_size)]

\* the step is a call of read_block or write_block of the CowBlockDevice
CowCallStep == cow_stats'.ops = cow_stats.ops + 1

\* the last call was a write_block whose backing read_block returned an error
CowLoadFailed(last) ==
    /\ last.kind = "write"
    /\ last.inner_res # None
    /\ last.inner_res[1].tag = "Err"

\* either layer over a block device, BlockCache or CowBlockDevice, in use
InitLayers ==
    /\ \/ CacheNew /\ CowIdle
       \/ CowNew /\ BcIdle
    /\ LruIdle
    /\ RaIdle
    /\ CcIdle
    /\ DqIdle
    /\ RxIdle
    /\ OpIdle

NextLayers ==
    \/ bc_alive /\ NextCache
    \/ cow_last.kind # "none" /\ NextCow

SpecLayers == InitLayers /\ [][NextLayers]_vars

\* C31: a buffer shorter than block_size is rejected with BufferTooSmall and
\* nothing else happens. BlockCache.read_block makes no device call and
\* leaves the cache (entries and order), the device and the buffer as they
\* were; CowBlockDevice.read_block and write_block make no read_block call of
\* the backing device and leave the overlay as it was.
C31_ShortBufferRejected ==
    [][/\ (/\ bc_alive
           /\ CacheCallStep
           /\ bc_last'.kind = "read"
           /\ bc_last'.len < bc_block_size) =>
             /\ bc_last'.res = Err("BufferTooSmall")
             /\ bc_last'.reads = <<>>
             /\ bc_last'.writes = <<>>
             /\ bc_cache' = bc_cache
             /\ bc_dev' = bc_dev
             /\ bc_last'.out = Zeros(bc_last'.len)
       /\ (/\ cow_last.kind # "none"
           /\ CowCallStep
           /\ cow_last'.len < cow_inner.block_size) =>
             /\ cow_last'.res = Err("BufferTooSmall")
             /\ cow_last'.reads = <<>>
             /\ cow_stats'.inner_reads = cow_stats.inner_reads
             /\ cow_blocks' = cow_blocks
             /\ cow_inner' = cow_inner
             /\ cow_last'.kind = "read" => cow_last'.out = Zeros(cow_last'.len)]_vars

\* C31 witness: a read_block of the BlockCache with a short buffer, for a
\* cached block that is not the most recently used one
C31_Witness ==
    /\ bc_alive
    /\ bc_last.kind = "read"
    /\ bc_last.len < bc_block_size
    /\ bc_last.res = Err("BufferTooSmall")
    /\ Len(bc_cache.data) = 2
    /\ bc_cache.data[2].num = bc_last.addr

\* C33: read_block of the CowBlockDevice, whether the address is in the
\* overlay or not, makes no read_block or write_block call of the backing
\* device and leaves the overlay (its addresses and every block's bytes) and
\* the backing device as they were.
C33_CowReadFrame ==
    [][(CowCallStep /\ cow_last'.kind = "read") =>
        /\ cow_last'.reads = <<>>
        /\ cow_stats'.inner_reads = cow_stats.inner_reads
        /\ cow_blocks' = cow_blocks
        /\ cow_inner' = cow_inner]_vars

\* C33 witness: a read_block with a buffer of block_size bytes of an address
\* that is not in the overlay, while another address is
C33_Witness ==
    /\ cow_last.kind = "read"
    /\ cow_last.len = cow_inner.block_size
    /\ cow_last.res = Err("NoSuchBlock")
    /\ cow_last.addr \notin DOMAIN cow_blocks
    /\ DOMAIN cow_blocks # {}
    /\ cow_stats.inner_reads[cow_last.addr] = 0

\* C13: read_block(addr) with a buffer of at least block_size bytes fails
\* with NoSuchBlock exactly when addr has never been successfully written
\* through the overlay; otherwise it returns Ok and the overlay block's
\* current bytes.
C13_CowReadAbsentIffUnwritten ==
    (cow_last.kind = "read" /\ cow_last.len >= cow_inner.block_size) =>
        /\ cow_last.res = Err("NoSuchBlock")
              <=> cow_stats.written[cow_last.addr] = None
        /\ cow_stats.written[cow_last.addr] # None =>
              /\ cow_last.res = Ok(cow_inner.block_size)
              /\ SubSeq(cow_last.out, 1, cow_inner.block_size)
                    = SubSeq(cow_blocks[cow_last.addr], 1, cow_inner.block_size)

\* C14: the backing device's read_block is called at most once per address,
\* and only by the first write_block to the address.
C14_BackingReadAtMostOnce ==
    /\ \A a \in CowAddrs : cow_stats.inner_reads[a] <= 1
    /\ (cow_last.kind = "write" /\ cow_last.reads # <<>>) =>
          cow_stats.inner_reads[cow_last.addr] = 1

\* C15: the backing device holds the bytes it held at first after every
\* sequence of read_block and write_block calls of the overlay.
C15_BackingNeverWritten ==
    cow_inner.blocks = BackingAtStart

\* C15 witness: an address was written through the overlay with bytes that
\* differ from the backing block, and read back afterwards
C15_Witness ==
    /\ cow_last.kind = "read"
    /\ cow_last.res.tag = "Ok"
    /\ cow_stats.written[cow_last.addr] # None
    /\ SubSeq(cow_last.out, 1, cow_inner.block_size)
          # cow_inner.blocks[cow_last.addr]
    /\ cow_inner.blocks = BackingAtStart

\* C16: a write_block whose backing read_block fails returns that error and
\* leaves the overlay as it was, the address absent; a read_block of the
\* address that follows fails with NoSuchBlock.
C16_FailedLoadLeavesOverlay ==
    [][CowCallStep =>
        /\ CowLoadFailed(cow_last') =>
              /\ cow_last'.res = cow_last'.inner_res[1]
              /\ cow_blocks' = cow_blocks
              /\ cow_last'.addr \notin DOMAIN cow_blocks'
        /\ (/\ CowLoadFailed(cow_last)
            /\ cow_last'.kind = "read"
            /\ cow_last'.addr = cow_last.addr
            /\ cow_last'.len >= cow_inner.block_size) =>
              cow_last'.res = Err("NoSuchBlock")]_vars

\* C16 witness: the first write_block to an address fails in the backing
\* device while another address is in the overlay
C16_Witness ==
    /\ CowLoadFailed(cow_last)
    /\ cow_last.res = Err("BadAddress")
    /\ cow_last.len = cow_inner.block_size
    /\ DOMAIN cow_blocks # {}
    /\ cow_last.addr \notin DOMAIN cow_blocks

\* C18: write_block with a buffer of block_size bytes or more, the backing
\* device not failing, returns Ok(block_size) and stores the first block_size
\* bytes of the buffer as the overlay block of the address.
C18_CowWriteLongBuffer ==
    (/\ cow_last.kind = "write"
     /\ cow_last.len >= cow_inner.block_size
     /\ cow_last.inner_res \in {None, Some(Ok(cow_inner.block_size))}) =>
        /\ cow_last.res = Ok(cow_inner.block_size)
        /\ cow_last.addr \in DOMAIN cow_blocks
        /\ SubSeq(cow_blocks[cow_last.addr], 1, cow_inner.block_size)
              = SubSeq(cow_last.buf, 1, cow_inner.block_size)

\* C19: for every block_size of the backing device, each overlay block is
\* block_size bytes long, a write_block with a buffer of block_size bytes
\* succeeds (the backing device holding the address), and a read_block of a
\* written address with a buffer of block_size bytes succeeds.
C19_OverlayBlockLen ==
    /\ \A a \in DOMAIN cow_blocks : Len(cow_blocks[a]) = cow_inner.block_size
    /\ (/\ cow_last.kind = "write"
        /\ cow_last.len = cow_inner.block_size
        /\ cow_last.inner_res # Some(Err("BadAddress"))) =>
          cow_last.res = Ok(cow_inner.block_size)
    /\ (/\ cow_last.kind = "read"
        /\ cow_last.len = cow_inner.block_size
        /\ cow_stats.written[cow_last.addr] # None) =>
          cow_last.res = Ok(cow_inner.block_size)

\* ------------------------------------------------- DeltaQueue (deltaq.rs)

\* Node::new(value, elem)
Node(value, elem) == [value |-> value, elem |-> elem]

\* VecDeque::insert(i, x), i counted from 1
InsertAt(d, i, x) == SubSeq(d, 1, i - 1) \o <<x>> \o SubSeq(d, i, Len(d))

\* faulty variant: the value of the node after the new one is left as it was
adapt_next_skip(d, i, node_value) == d

\* if there is a next element after the node inserted at i, its value is
\* lowered by the new node's value
adapt_next(d, i, node_value) ==
    IF Len(d) > i
    THEN [d EXCEPT ![i + 1].value = @ - node_value]
    ELSE d

\* the loop of DeltaQueue::insert from index i on, total_value being the sum
\* of the values before i; push_back when the loop ends
RECURSIVE InsertFrom(_, _, _, _, _)
InsertFrom(d, value, elem, i, total_value) ==
    IF i > Len(d)
    THEN d \o <<Node(value - total_value, elem)>>
    ELSE LET found == d[i]
         IN IF total_value + found.value >= value
            THEN LET node_value == value - total_value
                 IN adapt_next(InsertAt(d, i, Node(node_value, elem)), i,
                               node_value)
            ELSE InsertFrom(d, value, elem, i + 1, total_value + found.value)

\* faulty variant: the node is put at the back with its weight as its value
dq_insert_append(d, value, elem) == d \o <<Node(value, elem)>>

\* DeltaQueue::insert(value, elem): the data after the call
dq_insert(d, value, elem) == InsertFrom(d, value, elem, 1, 0)

\* DeltaQueue::pop_front: the data after the call and the returned Option<T>
dq_pop_front(d) ==
    IF d = <<>> THEN [data |-> d, ret |-> None]
    ELSE [data |-> Tail(d), ret |-> Some(Head(d).elem)]

\* DeltaQueue::new
DqNew ==
    /\ dq_data = <<>>
    /\ dq_hist = <<>>
    /\ dq_popped = <<>>

\* insert(value, elem): the element is the number of the call
DqInsert ==
    /\ Len(dq_hist) < MaxDqInserts
    /\ \E value \in 0..MaxWeight :
        /\ dq_data' = dq_insert(dq_data, value, Len(dq_hist) + 1)
        /\ dq_hist' = Append(dq_hist, value)
    /\ UNCHANGED dq_popped
    /\ UNCHANGED <<lruVars, raVars, bcVars, cowVars, ccVars, rxVars, opVars>>

DqPopFront ==
    /\ dq_data # <<>>
    /\ LET r == dq_pop_front(dq_data)
       IN /\ dq_data' = r.data
          /\ dq_popped' = IF r.ret = None THEN dq_popped
                          ELSE Append(dq_popped,
                                      [elem |-> r.ret[1], at |-> Len(dq_hist)])
    /\ UNCHANGED dq_hist
    /\ UNCHANGED <<lruVars, raVars, bcVars, cowVars, ccVars, rxVars, opVars>>

InitDeltaQ ==
    /\ DqNew
    /\ LruIdle
    /\ RaIdle
    /\ BcIdle
    /\ CowIdle
    /\ CcIdle
    /\ RxIdle
    /\ OpIdle

NextDeltaQ == DqInsert \/ DqPopFront

SpecDeltaQ == InitDeltaQ /\ [][NextDeltaQ]_vars

\* --------------------------------------------------- DeltaQueue: claims

\* the sum of the stored values of the first i nodes
RECURSIVE PrefixSum(_, _)
PrefixSum(d, i) == IF i = 0 THEN 0 ELSE d[i].value + PrefixSum(d, i - 1)

\* C20: after insert calls with no pop in between, every inserted element
\* has one node, no stored value is negative, and for every node the sum of
\* the stored values from the front up to and including the node is the
\* weight it was inserted with.
C20_PrefixSumIsWeight ==
    dq_popped = <<>> =>
        /\ Len(dq_data) = Len(dq_hist)
        /\ {dq_data[i].elem : i \in 1..Len(dq_data)} = 1..Len(dq_hist)
        /\ \A i \in 1..Len(dq_data) :
             /\ dq_data[i].value >= 0
             /\ PrefixSum(dq_data, i) = dq_hist[dq_data[i].elem]

\* C20 witness: four nodes, one of them inserted before an older node, two
\* with the same weight, and a last node above the others
C20_Witness ==
    /\ dq_popped = <<>>
    /\ Len(dq_data) = 4
    /\ \E i \in 1..3 : dq_data[i].elem > dq_data[i + 1].elem
    /\ \E i \in 2..4 : dq_data[i].value = 0
    /\ dq_data[4].value > 0
    /\ dq_data[1].value > 0

\* the weights given to insert so far are pairwise distinct
DistinctWeights ==
    \A i, j \in 1..Len(dq_hist) : i # j => dq_hist[i] # dq_hist[j]

\* every pop_front call was made after the last insert call
PopsAfterInserts ==
    \A i \in 1..Len(dq_popped) : dq_popped[i].at = Len(dq_hist)

\* the weights of the elements popped so far, then of the nodes stored, in
\* order
WeightsInOrder ==
    [i \in 1..Len(dq_popped) |-> dq_hist[dq_popped[i].elem]]
        \o [i \in 1..Len(dq_data) |-> dq_hist[dq_data[i].elem]]

\* C21: for distinct weights, whatever the order of the insert calls, the
\* nodes stored are the elements in ascending order of weight, each with the
\* difference to the weight before it as its value, and the pop_front calls
\* made after the inserts return the elements in ascending order of weight.
C21_SortedByWeight ==
    (DistinctWeights /\ PopsAfterInserts) =>
        LET w == WeightsInOrder
        IN /\ Len(w) = Len(dq_hist)
           /\ {w[i] : i \in 1..Len(w)} = {dq_hist[i] : i \in 1..Len(dq_hist)}
           /\ \A i \in 1..(Len(w) - 1) : w[i] < w[i + 1]
           /\ dq_popped = <<>> =>
                \A i \in 1..Len(dq_data) :
                    dq_data[i].value = w[i] - (IF i = 1 THEN 0 ELSE w[i - 1])

\* C21 witness: three distinct weights inserted in an order that is neither
\* ascending nor descending, then two pops
C21_Witness ==
    /\ DistinctWeights
    /\ PopsAfterInserts
    /\ Len(dq_hist) >= 3
    /\ dq_hist[1] < dq_hist[2]
    /\ dq_hist[3] < dq_hist[2]
    /\ Len(dq_popped) = 2
    /\ dq_data # <<>>

\* --------------------------------------------------- Read::read_exact

\* Result<()>::Ok(())
OkUnit == [tag |-> "Ok", val |-> <<>>]

\* A reader (an implementation of Read::read) holds the elements data, of
\* which pos have been delivered, and a plan of what each of its next calls
\* does: a negative number to fail, or the most elements the call delivers
\* (1 for a SingleRead, 0 for a source that gives nothing more).
ReaderOutcomes == (0 - 1)..MaxChunk

\* Read::read(buf) of the reader, n being buf's length: as Cursor::read, the
\* elements delivered are as many as the buffer and the source allow
ReaderRead(r, n) ==
    LET o == IF r.plan = <<>> THEN 0 ELSE Head(r.plan)
        rest == IF r.plan = <<>> THEN <<>> ELSE Tail(r.plan)
    IN IF o < 0
       THEN [res |-> Err("BadAddress"), bytes |-> <<>>,
             reader |-> [r EXCEPT !.plan = rest]]
       ELSE LET k == Min(o, Min(n, Len(r.data) - r.pos))
            IN [res |-> Ok(k), bytes |-> SubSeq(r.data, r.pos + 1, r.pos + k),
                reader |-> [r EXCEPT !.plan = rest, !.pos = @ + k]]

\* the buffer with the elements bs put at filled + 1 ..
FillAt(buf, filled, bs) ==
    [i \in 1..Len(buf) |->
        IF i > filled /\ i <= filled + Len(bs) THEN bs[i - filled] ELSE buf[i]]

\* faulty variant: one read call is made and its Ok is taken for a full buffer
read_exact_once(reader, buf, filled, calls) ==
    IF filled = Len(buf)
    THEN [res |-> OkUnit, buf |-> buf, calls |-> calls, reader |-> reader]
    ELSE LET r == ReaderRead(reader, Len(buf) - filled)
             log == Append(calls, [len |-> Len(buf) - filled, ret |-> r.res])
         IN IF r.res.tag = "Err"
            THEN [res |-> r.res, buf |-> buf, calls |-> log, reader |-> r.reader]
            ELSE [res |-> OkUnit, buf |-> FillAt(buf, filled, r.bytes),
                  calls |-> log, reader |-> r.reader]

\* Read::read_exact(buf): the loop, filled elements of buf being filled
\* already (buffer is buf[filled..]); calls are the read calls made, each
\* with the length of the buffer it was given and what it returned
RECURSIVE read_exact(_, _, _, _)
read_exact(reader, buf, filled, calls) ==
    IF filled = Len(buf)
    THEN [res |-> OkUnit, buf |-> buf, calls |-> calls, reader |-> reader]
    ELSE LET r == ReaderRead(reader, Len(buf) - filled)
             log == Append(calls, [len |-> Len(buf) - filled, ret |-> r.res])
         IN IF r.res.tag = "Err"
            THEN [res |-> r.res, buf |-> buf, calls |-> log, reader |-> r.reader]
            ELSE IF r.res.val = 0
            THEN [res |-> Err("PrematureEndOfInput"), buf |-> buf,
                  calls |-> log, reader |-> r.reader]
            ELSE IF r.res.val > Len(buf) - filled
            THEN [res |-> Panic, buf |-> buf, calls |-> log, reader |-> r.reader]
            ELSE read_exact(r.reader, FillAt(buf, filled, r.bytes),
                            filled + r.res.val, log)

RxNew == rx_last = [kind |-> "none"]

\* one read_exact call of a reader with a buffer of zeroes
RxCall ==
    /\ rx_last.kind = "none"
    /\ \E srcLen \in 0..MaxSrcLen, bufLen \in 0..MaxReadLen,
          plan \in [1..MaxReadLen -> ReaderOutcomes] :
        LET reader == [data |-> [i \in 1..srcLen |-> i], pos |-> 0,
                       plan |-> plan]
            r == read_exact(reader, Zeros(bufLen), 0, <<>>)
        IN rx_last' = [kind |-> "read_exact", reader |-> reader,
                       len |-> bufLen, res |-> r.res, buf |-> r.buf,
                       calls |-> r.calls, after |-> r.reader]
    /\ UNCHANGED <<lruVars, raVars, bcVars, cowVars, ccVars, dqVars, opVars>>

InitReadExact ==
    /\ RxNew
    /\ LruIdle
    /\ RaIdle
    /\ BcIdle
    /\ CowIdle
    /\ CcIdle
    /\ DqIdle
    /\ OpIdle

NextReadExact == RxCall

SpecReadExact == InitReadExact /\ [][NextReadExact]_vars

\* ------------------------------------------------- read_exact: claims

\* the number of elements the first i read calls delivered
RECURSIVE Delivered(_, _)
Delivered(calls, i) ==
    IF i = 0 THEN 0
    ELSE Delivered(calls, i - 1)
            + (IF calls[i].ret.tag = "Ok" THEN calls[i].ret.val ELSE 0)

\* C22: read_exact returns Ok(()) exactly when the whole buffer has been
\* filled, with the elements of the source in order; each read call is given
\* the part of the buffer not filled yet, and calls go on while they deliver
\* at least one element; it returns PrematureEndOfInput when a read returns
\* Ok(0) before the buffer is full, and the error of the first read that fails.
C22_ReadExact ==
    rx_last.kind = "read_exact" =>
        LET c == rx_last.calls
            n == Len(c)
            got == Delivered(c, n)
        IN /\ rx_last.res = OkUnit <=> got = rx_last.len
           /\ rx_last.res = OkUnit =>
                rx_last.buf = SubSeq(rx_last.reader.data, 1, rx_last.len)
           /\ \A i \in 1..n :
                /\ c[i].len = rx_last.len - Delivered(c, i - 1)
                /\ c[i].len > 0
                /\ i < n => (c[i].ret.tag = "Ok" /\ c[i].ret.val > 0)
           /\ (n > 0 /\ c[n].ret = Ok(0)) =>
                rx_last.res = Err("PrematureEndOfInput")
           /\ (n > 0 /\ c[n].ret.tag = "Err") => rx_last.res = c[n].ret
           /\ rx_last.res.tag = "Err" =>
                (n > 0 /\ (c[n].ret = Ok(0) \/ c[n].ret.tag = "Err"))

\* C22 witness: a buffer of three elements filled by three read calls of one
\* element each
C22_Witness ==
    /\ rx_last.kind = "read_exact"
    /\ rx_last.len = 3
    /\ rx_last.res = OkUnit
    /\ Len(rx_last.calls) = 3
    /\ \A i \in 1..3 : rx_last.calls[i].ret = Ok(1)
    /\ rx_last.buf = <<1, 2, 3>>

\* ------------------------------------------ OwnedPath (path/owned.rs)

\* A string is a sequence of characters.

\* pub const SEPARATOR: char = '/'
SEPARATOR == "/"

\* str::split(SEPARATOR) from character i on, cur being the fragment begun
\* and acc the fragments before it
RECURSIVE SplitFrom(_, _, _, _)
SplitFrom(str, i, cur, acc) ==
    IF i > Len(str) THEN Append(acc, cur)
    ELSE IF str[i] = SEPARATOR THEN SplitFrom(str, i + 1, <<>>, Append(acc, cur))
    ELSE SplitFrom(str, i + 1, Append(cur, str[i]), acc)

\* path.split(SEPARATOR).collect()
Split(str) == SplitFrom(str, 1, <<>>, <<>>)

\* Components::next for a fragment that is not empty
ComponentOf(item) ==
    IF item = <<".">> THEN [kind |-> "CurrentDir", str |-> <<>>]
    ELSE IF item = <<".", ".">> THEN [kind |-> "ParentDir", str |-> <<>>]
    ELSE [kind |-> "Normal", str |-> item]

\* the components of the fragments, the empty ones skipped
RECURSIVE ComponentsOf(_)
ComponentsOf(fragments) ==
    IF fragments = <<>> THEN <<>>
    ELSE IF Head(fragments) = <<>> THEN ComponentsOf(Tail(fragments))
    ELSE <<ComponentOf(Head(fragments))>> \o ComponentsOf(Tail(fragments))

\* Path::components: everything the iterator yields, in order
Components(path) ==
    LET absolute == path # <<>> /\ path[1] = SEPARATOR
    IN (IF absolute THEN <<[kind |-> "RootDir", str |-> <<>>]>> ELSE <<>>)
           \o ComponentsOf(Split(path))

\* str::trim_end_matches(SEPARATOR)
RECURSIVE trim_end_matches(_)
trim_end_matches(str) ==
    IF str # <<>> /\ Last(str) = SEPARATOR THEN trim_end_matches(Front(str))
    ELSE str

\* str::rfind(SEPARATOR): the place of the last separator counted from 1,
\* 0 for None
rfind(str) ==
    IF \E i \in 1..Len(str) : str[i] = SEPARATOR
    THEN CHOOSE i \in 1..Len(str) :
            str[i] = SEPARATOR /\ \A j \in (i + 1)..Len(str) : str[j] # SEPARATOR
    ELSE 0

\* the closure of OwnedPath::push for one component
push_component(inner, c) ==
    LET sep == IF inner # <<>> /\ Last(inner) # SEPARATOR
               THEN Append(inner, SEPARATOR)
               ELSE inner
    IN IF c.kind = "CurrentDir" THEN sep
       ELSE IF c.kind = "ParentDir"
       THEN LET index == rfind(trim_end_matches(sep))
            IN IF index # 0 THEN SubSeq(sep, 1, index - 1) ELSE sep
       ELSE IF c.kind = "Normal" THEN sep \o c.str
       ELSE IF sep = <<>> THEN <<SEPARATOR>> ELSE sep

\* for_each over the components
RECURSIVE PushAll(_, _)
PushAll(inner, cs) ==
    IF cs = <<>> THEN inner
    ELSE PushAll(push_component(inner, Head(cs)), Tail(cs))

\* OwnedPath::push(segment): the inner string after the call
push(inner, segment) == PushAll(inner, Components(segment))

\* the segments pushed
Segments == UNION {[1..n -> PathChars] : n \in 0..MaxSegLen}

\* OwnedPath::new
OpNew ==
    /\ op_inner = <<>>
    /\ op_last = [kind |-> "new", seg |-> <<>>, pre |-> <<>>, pushes |-> 0]

OpPush ==
    /\ op_last.pushes < MaxPushes
    /\ \E segment \in Segments :
        /\ op_inner' = push(op_inner, segment)
        /\ op_last' = [kind |-> "push", seg |-> segment, pre |-> op_inner,
                       pushes |-> op_last.pushes + 1]
    /\ UNCHANGED <<lruVars, raVars, bcVars, cowVars, ccVars, dqVars, rxVars>>

InitOwnedPath ==
    /\ OpNew
    /\ LruIdle
    /\ RaIdle
    /\ BcIdle
    /\ CowIdle
    /\ CcIdle
    /\ DqIdle
    /\ RxIdle

NextOwnedPath == OpPush

SpecOwnedPath == InitOwnedPath /\ [][NextOwnedPath]_vars

\* --------------------------------------------------- OwnedPath: claims

\* C23: a push of the current-directory component "." leaves the path's
\* string as it was, for every path.
C23_PushCurrentDirNoOp ==
    (op_last.kind = "push" /\ op_last.seg = <<".">>) =>
        op_inner = op_last.pre

====
